---- MODULE Spec2Model ----
(***************************************************************************)
(* Model of the task orchestrator of abliteration-lab                      *)
(* (src/infrastructure/agent_orchestrator.py): the persisted task store    *)
(* (tasks.json), the append-only event log (events.jsonl), the lock and    *)
(* heartbeat protocol of AgentOrchestrator and its stale-lock recovery.    *)
(*                                                                         *)
(* Time is a discrete UTC clock `now`.  A timestamp string produced by     *)
(* iso_now() is the pair <<t, "+00:00">>; a naive one would be <<t>>; the  *)
(* Python value None of a timestamp field is the empty tuple.              *)
(***************************************************************************)
EXTENDS Integers, Sequences, FiniteSets, TLC

\* ---------------------------------------------------------------- bounds
MaxTasks == 2
MaxTime == 3
MaxEvents == 5
\* calls made by the threads of SpecThreads and SpecHandles
MaxCalls == 3
\* polling threads the daemon ever creates; start() and stop() calls made
MaxSpawns == 2
MaxControl == 3
\* the last clock reading of the daemon's specifications
MaxHorizon == 5
\* registry entries of a batch, and the largest max_workers
MaxModels == 3
MaxWorkers == 2
\* sessions the adapter ever records, and requests it handles
MaxSessions == 2
MaxRequests == 3
\* registry calls made by the threads of SpecRegistry
MaxRegCalls == 3
\* connector calls made by the threads of SpecRate
MaxRateCalls == 3
\* bus: the longest pattern and route, and the subscribe calls made
MaxLen == 3
MaxSubs == 3
\* the subscriptions made on the bus the adapter is started on
MaxWired == 7
\* run_batch: models registered and threads of the pool
MaxUnits == 2
MaxPool == 2

\* stale_after_seconds of AgentOrchestrator.__init__, in clock ticks
StaleAfter == 1

\* recovery_interval_seconds of AgentOrchestrator.__init__, in clock ticks
PollInterval == 2

\* the largest ConnectorConfig.min_interval_seconds, in clock ticks
RateInterval == 2

Agents == {"a1", "a2"}
Creators == {"henry"}
Reasons == {"boom"}
TaskIds == 1..MaxTasks

None == "None"
NoTime == <<>>

\* ------------------------------------------------------------ timestamps
iso_now(t) == <<t, "+00:00">>

parse_timestamp(ts) == IF Len(ts) = 1 THEN <<ts[1], "+00:00">> ELSE ts

\* utc_now() - heartbeat_dt, both timezone-aware
Age(ts, t) == t - parse_timestamp(ts)[1]

\* -------------------------------------------------------------- records
OrchestratedTask(creator) ==
    [ created_by |-> creator,
      status |-> "pending",
      lock_owner |-> None,
      lock_acquired_at |-> NoTime,
      heartbeat_at |-> NoTime,
      completed_at |-> NoTime,
      failure_reason |-> None ]

Event(type, tid, actor, prev) ==
    [ type |-> type, task_id |-> tid, actor |-> actor, previous_owner |-> prev ]

\* _log_event with no event hook installed: one record appended
log_event(log, type, tid, actor, prev) == Append(log, Event(type, tid, actor, prev))

\* A handler's outcome: the in-memory store after its mutations, whether
\* _save_tasks was reached, the event log after its appends, its return value
\* and the ids whose lock _recover_stale_lock released in memory.
Outcome(mem, saved, log, result, rec) ==
    [ mem |-> mem, saved |-> saved, log |-> log, result |-> result, recovered |-> rec ]

\* ----------------------------------------------------------- event hook
\* the event_hook argument of AgentOrchestrator.__init__: absent, a callable
\* that returns, or a callable that raises an Exception
HookModes == {"none", "ok", "raises"}

\* the fallback record _log_event appends when the hook raised on event e
hook_error_event(e) ==
    [ type |-> "event_hook_error", task_id |-> e.task_id, actor |-> "orchestrator",
      source_event_type |-> e.type ]

\* the records a raising hook leaves for the appended events es: each event,
\* directly followed by its fallback record
RECURSIVE Mirrored(_)
Mirrored(es) ==
    IF es = <<>> THEN <<>>
    ELSE <<Head(es), hook_error_event(Head(es))>> \o Mirrored(Tail(es))

\* mutant: no try/except around the hook call, so the exception leaves
\* _log_event at the first event and the handler with it
event_hook_mirror_unguarded(r, log0, hook) ==
    IF hook # "raises" \/ Len(r.log) = Len(log0) THEN r
    ELSE [ r EXCEPT !.log = Append(log0, r.log[Len(log0) + 1]),
                    !.result = "HookError" ]

\* the second half of _log_event, for every event a handler appended to the
\* log log0: the hook is called inside try/except, so the handler goes on and
\* only the log differs
event_hook_mirror(r, log0, hook) ==
    IF hook # "raises" THEN r
    ELSE [ r EXCEPT !.log = log0 \o Mirrored(SubSeq(r.log, Len(log0) + 1, Len(r.log))) ]

\* ------------------------------------------------------- stale recovery
\* mutants of the stale test: the boundary age counts as stale / the first
\* stale age does not
IsStale_inclusive(task, t) ==
    /\ task.lock_owner # None
    /\ task.heartbeat_at # NoTime
    /\ Age(task.heartbeat_at, t) >= StaleAfter

IsStale_late(task, t) ==
    /\ task.lock_owner # None
    /\ task.heartbeat_at # NoTime
    /\ Age(task.heartbeat_at, t) > StaleAfter + 1

IsStale(task, t) ==
    /\ task.lock_owner # None
    /\ task.heartbeat_at # NoTime
    /\ Age(task.heartbeat_at, t) > StaleAfter

\* mutant: the recovery clears the lock fields but leaves the status
Released_keeps_status(task) ==
    [ task EXCEPT !.lock_owner = None,
                  !.lock_acquired_at = NoTime,
                  !.heartbeat_at = NoTime ]

Released(task) ==
    [ task EXCEPT !.status = "pending",
                  !.lock_owner = None,
                  !.lock_acquired_at = NoTime,
                  !.heartbeat_at = NoTime ]

\* mutant: the lock is released without the lock_recovered event
recover_stale_lock_silent(task, tid, log, t) ==
    IF IsStale(task, t)
    THEN [ task |-> Released(task), log |-> log, recovered |-> TRUE ]
    ELSE [ task |-> task, log |-> log, recovered |-> FALSE ]

\* _recover_stale_lock: returns the task as mutated in memory, the log after
\* the lock_recovered append, and the boolean result
recover_stale_lock(task, tid, log, t) ==
    IF IsStale(task, t)
    THEN [ task |-> Released(task),
           log |-> log_event(log, "lock_recovered", tid, "orchestrator", task.lock_owner),
           recovered |-> TRUE ]
    ELSE [ task |-> task, log |-> log, recovered |-> FALSE ]

\* ------------------------------------------------------------- handlers
\* Each handler is a function of the store it loaded (mem), the event log,
\* its arguments and the clock reading t.

get_task_or_raise(mem, tid) == tid \in DOMAIN mem

create_task(mem, log, tid, creator) ==
    Outcome((tid :> OrchestratedTask(creator)) @@ mem, TRUE,
            log_event(log, "task_created", tid, creator, None), "created", {})

\* mutant: the check of the terminal statuses is missing
claim_task_no_terminal_check(mem, log, tid, agent, t) ==
    IF ~get_task_or_raise(mem, tid) THEN Outcome(mem, FALSE, log, "KeyError", {})
    ELSE LET r == recover_stale_lock(mem[tid], tid, log, t)
             rec == IF r.recovered THEN {tid} ELSE {}
             owner == r.task.lock_owner
         IN  IF owner # None /\ owner # agent
             THEN Outcome([mem EXCEPT ![tid] = r.task], FALSE, r.log, "false", rec)
             ELSE Outcome([mem EXCEPT ![tid] =
                              [r.task EXCEPT !.status = "in_progress",
                                             !.lock_owner = agent,
                                             !.lock_acquired_at = iso_now(t),
                                             !.heartbeat_at = iso_now(t)]],
                          TRUE, log_event(r.log, "task_claimed", tid, agent, None),
                          "true", rec)

\* mutant: a claim also releases every other task's lock
claim_task_sweeps(mem, log, tid, agent, t) ==
    LET r == claim_task_no_terminal_check(mem, log, tid, agent, t)
    IN  [r EXCEPT !.mem = [ x \in DOMAIN @ |-> IF x = tid THEN @[x] ELSE Released(@[x]) ]]

claim_task(mem, log, tid, agent, t) ==
    IF ~get_task_or_raise(mem, tid) THEN Outcome(mem, FALSE, log, "KeyError", {})
    ELSE LET r == recover_stale_lock(mem[tid], tid, log, t)
             rec == IF r.recovered THEN {tid} ELSE {}
             owner == r.task.lock_owner
         IN  IF r.task.status \in {"completed", "failed"}
             THEN Outcome([mem EXCEPT ![tid] = r.task], FALSE, r.log, "false", rec)
             ELSE IF owner # None /\ owner # agent
             THEN Outcome([mem EXCEPT ![tid] = r.task], FALSE, r.log, "false", rec)
             ELSE Outcome([mem EXCEPT ![tid] =
                              [r.task EXCEPT !.status = "in_progress",
                                             !.lock_owner = agent,
                                             !.lock_acquired_at = iso_now(t),
                                             !.heartbeat_at = iso_now(t)]],
                          TRUE, log_event(r.log, "task_claimed", tid, agent, None),
                          "true", rec)

\* mutant: the owner's heartbeat is acknowledged but heartbeat_at is not set
heartbeat_no_refresh(mem, log, tid, agent, t) ==
    IF ~get_task_or_raise(mem, tid) THEN Outcome(mem, FALSE, log, "KeyError", {})
    ELSE LET r == recover_stale_lock(mem[tid], tid, log, t)
             rec == IF r.recovered THEN {tid} ELSE {}
         IN  IF r.task.lock_owner # agent
             THEN Outcome([mem EXCEPT ![tid] = r.task], FALSE, r.log, "false", rec)
             ELSE Outcome([mem EXCEPT ![tid] = r.task],
                          TRUE, log_event(r.log, "heartbeat", tid, agent, None),
                          "true", rec)

heartbeat(mem, log, tid, agent, t) ==
    IF ~get_task_or_raise(mem, tid) THEN Outcome(mem, FALSE, log, "KeyError", {})
    ELSE LET r == recover_stale_lock(mem[tid], tid, log, t)
             rec == IF r.recovered THEN {tid} ELSE {}
         IN  IF r.task.lock_owner # agent
             THEN Outcome([mem EXCEPT ![tid] = r.task], FALSE, r.log, "false", rec)
             ELSE Outcome([mem EXCEPT ![tid] = [r.task EXCEPT !.heartbeat_at = iso_now(t)]],
                          TRUE, log_event(r.log, "heartbeat", tid, agent, None),
                          "true", rec)

\* mutant: the owner test of claim_task (a set owner other than the caller)
\* in place of complete_task's, so a task with no owner can be completed
complete_task_unowned(mem, log, tid, agent, t) ==
    IF ~get_task_or_raise(mem, tid) THEN Outcome(mem, FALSE, log, "KeyError", {})
    ELSE LET r == recover_stale_lock(mem[tid], tid, log, t)
             rec == IF r.recovered THEN {tid} ELSE {}
         IN  IF r.task.lock_owner # None /\ r.task.lock_owner # agent
             THEN Outcome([mem EXCEPT ![tid] = r.task], FALSE, r.log, "false", rec)
             ELSE Outcome([mem EXCEPT ![tid] =
                              [r.task EXCEPT !.status = "completed",
                                             !.completed_at = iso_now(t),
                                             !.lock_owner = None,
                                             !.lock_acquired_at = NoTime,
                                             !.heartbeat_at = NoTime]],
                          TRUE, log_event(r.log, "task_completed", tid, agent, None),
                          "true", rec)

complete_task(mem, log, tid, agent, t) ==
    IF ~get_task_or_raise(mem, tid) THEN Outcome(mem, FALSE, log, "KeyError", {})
    ELSE LET r == recover_stale_lock(mem[tid], tid, log, t)
             rec == IF r.recovered THEN {tid} ELSE {}
         IN  IF r.task.lock_owner # agent
             THEN Outcome([mem EXCEPT ![tid] = r.task], FALSE, r.log, "false", rec)
             ELSE Outcome([mem EXCEPT ![tid] =
                              [r.task EXCEPT !.status = "completed",
                                             !.completed_at = iso_now(t),
                                             !.lock_owner = None,
                                             !.lock_acquired_at = NoTime,
                                             !.heartbeat_at = NoTime]],
                          TRUE, log_event(r.log, "task_completed", tid, agent, None),
                          "true", rec)

\* mutant: an unknown id is answered like a denial
fail_task_unknown_false(mem, log, tid, agent, reason, t) ==
    IF ~get_task_or_raise(mem, tid) THEN Outcome(mem, FALSE, log, "false", {})
    ELSE LET r == recover_stale_lock(mem[tid], tid, log, t)
             rec == IF r.recovered THEN {tid} ELSE {}
         IN  IF r.task.lock_owner # agent
             THEN Outcome([mem EXCEPT ![tid] = r.task], FALSE, r.log, "false", rec)
             ELSE Outcome([mem EXCEPT ![tid] =
                              [r.task EXCEPT !.status = "failed",
                                             !.failure_reason = reason,
                                             !.lock_owner = None,
                                             !.lock_acquired_at = NoTime,
                                             !.heartbeat_at = NoTime]],
                          TRUE, log_event(r.log, "task_failed", tid, agent, None),
                          "true", rec)

fail_task(mem, log, tid, agent, reason, t) ==
    IF ~get_task_or_raise(mem, tid) THEN Outcome(mem, FALSE, log, "KeyError", {})
    ELSE LET r == recover_stale_lock(mem[tid], tid, log, t)
             rec == IF r.recovered THEN {tid} ELSE {}
         IN  IF r.task.lock_owner # agent
             THEN Outcome([mem EXCEPT ![tid] = r.task], FALSE, r.log, "false", rec)
             ELSE Outcome([mem EXCEPT ![tid] =
                              [r.task EXCEPT !.status = "failed",
                                             !.failure_reason = reason,
                                             !.lock_owner = None,
                                             !.lock_acquired_at = NoTime,
                                             !.heartbeat_at = NoTime]],
                          TRUE, log_event(r.log, "task_failed", tid, agent, None),
                          "true", rec)

\* get_task: a copy of the record, or the KeyError; nothing is written
get_task(mem, log, tid) ==
    IF ~get_task_or_raise(mem, tid) THEN Outcome(mem, FALSE, log, "KeyError", {})
    ELSE Outcome(mem, FALSE, log, "task", {})

\* the loop of recover_stale_tasks over tasks.items(): the store is written
\* with sorted keys, so the ids are visited in ascending order
RECURSIVE RecoverFrom(_, _, _, _)
RecoverFrom(acc, ids, tid, t) ==
    IF \A i \in ids : i < tid THEN acc
    ELSE IF tid \notin ids THEN RecoverFrom(acc, ids, tid + 1, t)
    ELSE LET r == recover_stale_lock(acc.mem[tid], tid, acc.log, t)
         IN  RecoverFrom(
                 [ acc EXCEPT !.mem = [acc.mem EXCEPT ![tid] = r.task],
                              !.log = r.log,
                              !.recovered = IF r.recovered THEN @ \cup {tid} ELSE @ ],
                 ids, tid + 1, t)

recover_stale_tasks(mem, log, t) ==
    RecoverFrom(Outcome(mem, TRUE, log, "list", {}), DOMAIN mem, 1, t)

\* ---------------------------------------------------------------- state
VARIABLES
    tasks,      \* tasks.json: task_id -> record
    events,     \* events.jsonl
    now,        \* the UTC clock
    nextId,     \* the next fresh task id (uuid4)
    last,       \* the call made by the last step and what it returned
    committed,  \* per task: stale recoveries that reached _save_tasks
    handle,     \* thread -> the AgentOrchestrator instance it calls
    holder,     \* instance -> the thread inside `with self._lock`, or Free
    pc,         \* thread -> "idle", "waiting" (at the with), "loaded"
    req,        \* thread -> the call it is making
    snap,       \* thread -> the store its _load_tasks returned
    ret,        \* thread -> its last finished call and the value returned
    serial,     \* the store the finished calls give when run one after another
    conc,       \* thread -> the threads whose call overlapped its call
    calls,      \* number of calls the threads have made
    event_hook, \* the mode of the instance's event hook
    d_thread,   \* StaleRecoveryDaemon._thread: a polling thread, or 0 for None
    stop_event, \* StaleRecoveryDaemon._stop_event
    poller,     \* polling thread -> "unborn", "loop" (at the while test),
                \*   "waiting" (in _stop_event.wait) or "dead"
    wake_at,    \* polling thread -> the time its wait times out
    ctl_pc,     \* controller -> "idle", "start" (past the is_running test)
                \*   or "join" (in _thread.join)
    ctl_join,   \* controller -> the thread its stop() joins
    ctl_last,   \* the last start() / stop() call that returned
    ctl_calls,  \* number of start() / stop() calls made
    wf,         \* the frame of a run_for_model call made on its own
    reg_models, \* MultiModelRegistry._records: the model ids, in insertion order
    reg_status, \* model id -> abliteration_status of its record
    reg_conn,   \* MultiModelRegistry._connectors: model id -> connector object
    conn_heap,  \* connector object -> its state
    max_workers, \* the max_workers argument of run_batch
    unit,       \* model id -> the state of its future and what it holds
    batch,      \* the locals of run_batch: position, loop index, models, results
    report,     \* what run_batch returned
    report_file, \* batch_abliteration_results.json
    sessions,   \* OrchestratorAdapter._sessions: session_id -> session
    nextSess,   \* the next fresh session_id / lock_token (uuid4)
    outbox,     \* what the last handled request made the router emit
    ad_last,    \* the last handled request and the orchestrator calls it made
    ad_count,   \* number of requests handled
    max_models, \* MultiModelRegistry.max_models
    reg_lock,   \* MultiModelRegistry._lock: the thread inside `with`, or Free
    r_pc,       \* registry thread -> "idle", "body1", "body2" (inside `with`)
    r_op,       \* registry thread -> the registry call it is making
    r_ret,      \* registry thread -> what its last call returned or raised
    held,       \* registry thread -> the value its last read returned
    r_last,     \* the thread and operation of the last registry step
    r_calls,    \* number of registry calls made
    min_interval, \* connector object -> config.min_interval_seconds
    rl_lock,    \* connector object -> the thread inside its `with self._lock`
    last_call_at, \* connector object -> _last_call_at
    c_pc,       \* connector thread -> "idle", "at_lock", "sleeping", "stamp"
    c_op,       \* connector thread -> the operation it called and on what
    wake,       \* connector thread -> the time its time.sleep ends
    rate_last,  \* the last operation that proceeded, and when the one
                \*   before it on the same object did
    proc_at,    \* connector object -> when an operation last proceeded on it
    rate_calls, \* number of connector calls made
    subscriptions, \* MessageBus._subscriptions
    closures,   \* the Subscription objects made so far; the k-th unsubscribe
                \*   function returned holds the k-th
    unsubscribed, \* the unsubscribe functions that have been called
    pub,        \* the publish call in progress: its route, the handlers it
                \*   collected under the lock and how many it has called
    bus_last,   \* the last bus call
    unsubscribers, \* OrchestratorAdapter._unsubscribers
    locks,      \* lock -> the thread inside it and how often it entered
    program,    \* thread -> the lock operations and blocking calls ahead of it
    work_queue, \* the work items submitted to the executor and not yet taken
    futures,    \* model id -> the state of its future
    setup       \* the event hook, the models registered, the pool size

threadVars == <<handle, holder, pc, req, snap, ret, serial, conc, calls>>

daemonVars == <<d_thread, stop_event, poller, wake_at, ctl_pc, ctl_join, ctl_last, ctl_calls>>

\* the state outside the orchestrator's store, log, clock and threads
batchVars == <<reg_models, reg_status, reg_conn, conn_heap, max_workers, unit, batch, report,
               report_file>>

adapterVars == <<sessions, nextSess, outbox, ad_last, ad_count>>

registryVars == <<max_models, reg_lock, r_pc, r_op, r_ret, held, r_last, r_calls>>

rateVars == <<min_interval, rl_lock, last_call_at, c_pc, c_op, wake, rate_last, proc_at,
              rate_calls>>

\* the state of the bus adapter and of the threads calling the registry and
\* the connectors
busVars == <<subscriptions, closures, unsubscribed, pub, bus_last, unsubscribers>>

\* the locks and the threads taking them
lockVars == <<locks, program, work_queue, futures, setup>>

sideVars == <<adapterVars, registryVars, rateVars, busVars, lockVars>>

extVars == <<event_hook, daemonVars, wf, batchVars, sideVars>>

vars == <<tasks, events, now, nextId, last, committed, threadVars, extVars>>

Threads == {"w1", "w2", "daemon"}
Handles == {"h1", "h2"}
Free == "free"

NoReq == [ op |-> "none", task_id |-> 0, agent |-> None, reason |-> None ]

NoRet == [ op |-> "none", task_id |-> 0, agent |-> None, result |-> "none",
           serial |-> "none", recovered |-> {}, at |-> 0 ]

Call(op, tid, agent, r, t) ==
    [ op |-> op, task_id |-> tid, agent |-> agent, result |-> r.result,
      recovered |-> r.recovered, saved |-> r.saved, at |-> t ]

NoCall == [ op |-> "none", task_id |-> 0, agent |-> None, result |-> "none",
            recovered |-> {}, saved |-> FALSE, at |-> 0 ]

\* ------------------------------------------------ connectors and workflow
\* A connector (src/infrastructure/model_connectors.py) is its class, its
\* _abliterated flag and, for an externally supplied implementation whose
\* operations raise, the stage in which they do (0: never).  Rates and scores
\* are in hundredths.
ConnKinds == {"exo", "openai"}
FailStages == 0..3

Connector(kind, fails_at) ==
    [ kind |-> kind, abliterated |-> FALSE, fails_at |-> fails_at ]

\* get_connector() returning None
NoConn == Connector(None, 0)

get_refusals(c) ==
    CASE c.kind = "exo" -> IF c.abliterated THEN 12 ELSE 61
      [] c.kind = "openai" -> IF c.abliterated THEN 10 ELSE 50

test(c) ==
    CASE c.kind = "exo" ->
            [ benchmark_score |-> IF c.abliterated THEN 78 ELSE 52,
              personality_consistency |-> 88 ]
      [] c.kind = "openai" ->
            [ benchmark_score |-> IF c.abliterated THEN 84 ELSE 60,
              personality_consistency |-> 92 ]

\* mutant: applying again takes the abliteration back
apply_abliteration_toggle(c) == [c EXCEPT !.abliterated = ~@]

apply_abliteration(c) == [c EXCEPT !.abliterated = TRUE]

\* what a test stage keeps of get_refusals(prompts) and test(suite)
Measure(c) ==
    [ refusal_rate |-> get_refusals(c),
      benchmark_score |-> test(c).benchmark_score,
      personality_consistency |-> test(c).personality_consistency ]

NoMeasure == [ refusal_rate |-> 0, benchmark_score |-> 0, personality_consistency |-> 0 ]

stages == <<"baseline_test", "abliteration", "validation_test", "comparison">>

\* agent_id = f"workflow:{model_id}"
WfAgent(m) == "workflow:" \o m

\* the locals of run_for_model: the stage it is in, its position in the stage
\* ("create", "claim", "call", "complete"; "returned" / "raised" at the end)
Frame(m, c) ==
    [ model_id |-> m, stage |-> 1, step |-> "create", task_ids |-> <<>>,
      conn |-> c, baseline |-> NoMeasure, validation |-> NoMeasure ]

NoFrame == [Frame(None, NoConn) EXCEPT !.step = "off"]

abs(n) == IF n < 0 THEN -n ELSE n

WorkflowResult(W) ==
    [ model_id |-> W.model_id,
      refusal_rates |->
          [ before |-> W.baseline.refusal_rate, after |-> W.validation.refusal_rate,
            delta |-> W.baseline.refusal_rate - W.validation.refusal_rate ],
      benchmark_scores |->
          [ before |-> W.baseline.benchmark_score, after |-> W.validation.benchmark_score,
            delta |-> W.validation.benchmark_score - W.baseline.benchmark_score ],
      personality_shifts |->
          [ before |-> W.baseline.personality_consistency,
            after |-> W.validation.personality_consistency,
            delta |-> abs(W.validation.personality_consistency
                            - W.baseline.personality_consistency) ],
      task_ids |-> W.task_ids ]

\* the connector calls of a stage; the comparison stage makes none
stage_call(W) ==
    IF W.conn.fails_at = W.stage THEN [W EXCEPT !.step = "raised"]
    ELSE CASE W.stage = 1 -> [W EXCEPT !.baseline = Measure(W.conn), !.step = "complete"]
           [] W.stage = 2 -> [W EXCEPT !.conn = apply_abliteration(@), !.step = "complete"]
           [] W.stage = 3 -> [W EXCEPT !.validation = Measure(W.conn), !.step = "complete"]
           [] W.stage = 4 -> [W EXCEPT !.step = "complete"]

\* run_for_model drops what complete_task returns and goes on
after_complete(W, done) ==
    IF W.stage = Len(stages) THEN [W EXCEPT !.step = "returned"]
    ELSE [W EXCEPT !.stage = @ + 1, !.step = "create"]

\* one statement of run_for_model, on the store S.mem, the log S.log and the
\* fresh id S.id, at clock reading t
wf_advance(S, t) ==
    LET W == S.wf
        agent == WfAgent(W.model_id)
        cur == W.task_ids[Len(W.task_ids)]
        put(r, W2, id) ==
            [ wf |-> W2, mem |-> IF r.saved THEN r.mem ELSE S.mem, log |-> r.log, id |-> id ]
    IN  CASE W.step = "create" ->
                put(event_hook_mirror(create_task(S.mem, S.log, S.id, agent), S.log, event_hook),
                    [W EXCEPT !.task_ids = Append(@, S.id), !.step = "claim"], S.id + 1)
          [] W.step = "claim" ->
                put(event_hook_mirror(claim_task(S.mem, S.log, cur, agent, t), S.log, event_hook),
                    [W EXCEPT !.step = "call"], S.id)
          [] W.step = "call" ->
                [S EXCEPT !.wf = stage_call(W)]
          [] W.step = "complete" ->
                LET r == event_hook_mirror(complete_task(S.mem, S.log, cur, agent, t),
                                           S.log, event_hook)
                IN  put(r, after_complete(W, r.result = "true"), S.id)

\* run_for_model from its first statement to its return or raise, with no
\* other thread's call in between
RECURSIVE RunSteps(_, _)
RunSteps(S, t) ==
    IF S.wf.step \in {"returned", "raised"} THEN S
    ELSE RunSteps(wf_advance(S, t), t)

run_for_model(m, c, mem, log, id, t) ==
    RunSteps([ wf |-> Frame(m, c), mem |-> mem, log |-> log, id |-> id ], t)

\* no run_for_model call
WfOff == wf = NoFrame

\* ------------------------------------------------------ registry and batch
ModelName(i) == "m" \o ToString(i)
Models == { ModelName(i) : i \in 1..MaxModels }

Range(seq) == { seq[i] : i \in 1..Len(seq) }

\* a future: not created, in the executor's queue, running, done, or done
\* and seen by the as_completed loop; out is what future.result() gives
NoOut == [ kind |-> "none", value |-> WorkflowResult(NoFrame) ]
NoUnit == [ state |-> "none", out |-> NoOut ]

NoReport == [ kind |-> "none" ]

\* the connector objects a caller has constructed: two that work and one
\* whose apply_abliteration raises
ConnObjs == {"k1", "k2", "k3"}

FreshConnectors ==
    [ k \in ConnObjs |->
        CASE k = "k1" -> Connector("exo", 0)
          [] k = "k2" -> Connector("openai", 0)
          [] k = "k3" -> Connector("exo", 2) ]

\* self._connectors.get(model_id)
get_connector(conns, m) == IF m \in DOMAIN conns THEN conns[m] ELSE None

update_status(status, m, st) == [status EXCEPT ![m] = st]

export_records(models, status) ==
    [ i \in 1..Len(models) |->
        [ model_id |-> models[i], abliteration_status |-> status[models[i]] ] ]

ErrorEntry(m) == [ model_id |-> m, error |-> "raised" ]

IsError(e) == "error" \in DOMAIN e

\* mutant: no try/except around future.result(): the exception of a unit
\* leaves the loop and run_batch
collect_unguarded(results, status, m, out) ==
    IF out.kind = "result"
    THEN [ results |-> Append(results, out.value),
           status |-> update_status(status, m, "completed"), raised |-> FALSE ]
    ELSE [ results |-> results, status |-> status, raised |-> TRUE ]

\* the body of the as_completed loop for the future of model m
collect(results, status, m, out) ==
    IF out.kind = "result"
    THEN [ results |-> Append(results, out.value),
           status |-> update_status(status, m, "completed"), raised |-> FALSE ]
    ELSE [ results |-> Append(results, ErrorEntry(m)),
           status |-> update_status(status, m, "failed"), raised |-> FALSE ]

RECURSIVE SumDelta(_, _)
SumDelta(es, key) ==
    IF es = <<>> THEN 0 ELSE Head(es)[key].delta + SumDelta(Tail(es), key)

\* sum(...) / len(successful), kept as the fraction; 0.0 without a success
Mean(es, key) ==
    IF es = <<>> THEN [ num |-> 0, den |-> 1 ]
    ELSE [ num |-> SumDelta(es, key), den |-> Len(es) ]

summary(models, results) ==
    LET successful == SelectSeq(results, LAMBDA r : ~IsError(r))
    IN  [ total_models |-> Len(models),
          processed_models |-> Len(results),
          successful_models |-> Len(successful),
          avg_refusal_reduction |-> Mean(successful, "refusal_rates"),
          avg_benchmark_gain |-> Mean(successful, "benchmark_scores") ]

NoBatch == [ pc |-> "idle", idx |-> 0, models |-> <<>>, results |-> <<>> ]

\* no registry, no run_batch call
BatchOff ==
    /\ reg_models = <<>>
    /\ reg_status = <<>>
    /\ reg_conn = <<>>
    /\ conn_heap = FreshConnectors
    /\ max_workers = 1
    /\ unit = <<>>
    /\ batch = NoBatch
    /\ report = NoReport
    /\ report_file = NoReport

\* no event hook
\* ----------------------------------------------------------- bus adapter
\* OrchestratorAdapter (src/infrastructure/orchestrator_adapter.py).  The
\* bus dispatches synchronously on the publisher's thread, so a handler runs
\* from the request to its emit; its orchestrator calls are the operators
\* above.  uuid4 values are fresh numbers under the prefixes sess_ and lock_.
SessionId(n) == "sess_" \o ToString(n)

\* mutant: every session gets the same token
LockToken_reused(n) == "lock_1"

LockToken(n) == "lock_" \o ToString(n)

\* a task_id no create_task ever returns
UnknownId == MaxTasks + 1

\* a router.emit: the event name and the fields of its payload that name
\* the task, the agent, the session and the token
Emit(event, tid, agent, sid, tok, reason) ==
    [ event |-> event, task_id |-> tid, agent_id |-> agent,
      session_id |-> sid, lock_token |-> tok, reason |-> reason ]

Session(tid, agent, tok) == [ task_id |-> tid, agent_id |-> agent, lock_token |-> tok ]

\* the orchestrator as a handler sees it, and what the handler has done
AdState(mem, log, id, sess, n) ==
    [ mem |-> mem, log |-> log, id |-> id, sessions |-> sess, n |-> n,
      out |-> <<>>, calls |-> <<>> ]

\* an orchestrator call r made by a handler in state A
Called_by(A, op, r, id) ==
    LET h == event_hook_mirror(r, A.log, event_hook)
    IN  [A EXCEPT !.mem = IF h.saved THEN h.mem ELSE @, !.log = h.log, !.id = id,
                  !.calls = Append(@, op)]

emit(A, m) == [A EXCEPT !.out = Append(@, m)]

\* mutant: a live session is enough, whatever token is presented
session_matches_any_token(sess, sid, tok) == sid \in DOMAIN sess

\* `session and session.get("lock_token") == lock_token`
session_matches(sess, sid, tok) ==
    /\ sid \in DOMAIN sess
    /\ sess[sid].lock_token = tok

\* _handle_claim_request; pl.task_id is 0 and pl.agent_id is None when absent
handle_claim_request(pl, A, t) ==
    IF pl.agent_id = None
    THEN emit(A, Emit("task_failed", 0, None, None, None, "agent_id is required"))
    ELSE
      LET A1 == IF pl.task_id = 0
                THEN Called_by(A, "create_task",
                               create_task(A.mem, A.log, A.id, pl.agent_id), A.id + 1)
                ELSE A
          tid1 == IF pl.task_id = 0 THEN A.id ELSE pl.task_id
          c1 == claim_task(A1.mem, A1.log, tid1, pl.agent_id, t)
          A2 == Called_by(A1, "claim_task", c1, A1.id)
          \* except KeyError: create a replacement and claim it
          A3 == Called_by(A2, "create_task",
                          create_task(A2.mem, A2.log, A2.id, pl.agent_id), A2.id + 1)
          c2 == claim_task(A3.mem, A3.log, A2.id, pl.agent_id, t)
          A4 == Called_by(A3, "claim_task", c2, A3.id)
          raised == c1.result = "KeyError"
          B == IF raised THEN A4 ELSE A2
          tid == IF raised THEN A2.id ELSE tid1
          claimed == IF raised THEN c2.result = "true" ELSE c1.result = "true"
      IN  IF ~claimed
          THEN emit(B, Emit("task_failed", tid, pl.agent_id, None, None, "task claim rejected"))
          ELSE emit([B EXCEPT !.sessions =
                        [ s \in DOMAIN @ \cup {SessionId(B.n)} |->
                            IF s = SessionId(B.n)
                            THEN Session(tid, pl.agent_id, LockToken(B.n)) ELSE @[s] ],
                              !.n = @ + 1],
                    Emit("task_claimed", tid, pl.agent_id, SessionId(B.n), LockToken(B.n), None))

\* _handle_heartbeat_request
handle_heartbeat_request(pl, A, t) ==
    IF ~session_matches(A.sessions, pl.session_id, pl.lock_token)
    THEN emit(A, Emit("task_failed", 0, None, pl.session_id, None,
                      "invalid session or lock token"))
    ELSE
      LET session == A.sessions[pl.session_id]
          r == heartbeat(A.mem, A.log, session.task_id, session.agent_id, t)
          B == Called_by(A, "heartbeat", r, A.id)
      IN  IF r.result # "true"
          THEN emit(B, Emit("task_failed", session.task_id, None, pl.session_id, None,
                            "heartbeat rejected"))
          ELSE emit(B, Emit("task_heartbeat_ack", session.task_id, None, pl.session_id,
                            pl.lock_token, None))

\* _handle_release_request
handle_release_request(pl, A, t) ==
    IF ~session_matches(A.sessions, pl.session_id, pl.lock_token)
    THEN emit(A, Emit("task_failed", 0, None, pl.session_id, None,
                      "invalid session or lock token"))
    ELSE
      LET session == A.sessions[pl.session_id]
          r == IF pl.outcome = "failed"
               THEN fail_task(A.mem, A.log, session.task_id, session.agent_id,
                              "released as failed", t)
               ELSE complete_task(A.mem, A.log, session.task_id, session.agent_id, t)
          emit_event == IF pl.outcome = "failed" THEN "task_failed" ELSE "task_released"
          B == Called_by(A, IF pl.outcome = "failed" THEN "fail_task" ELSE "complete_task",
                         r, A.id)
          C == [B EXCEPT !.sessions =
                   [ s \in DOMAIN @ \ {pl.session_id} |-> @[s] ]]
      IN  IF r.result # "true"
          THEN emit(C, Emit("task_failed", session.task_id, None, pl.session_id, None,
                            "task release rejected"))
          ELSE emit(C, Emit(emit_event, session.task_id, None, pl.session_id,
                            pl.lock_token, None))

ClaimPayload(tid, agent) == [ task_id |-> tid, agent_id |-> agent ]

SessionPayload(sid, tok, outcome) ==
    [ session_id |-> sid, lock_token |-> tok, outcome |-> outcome ]

NoRequest == [ route |-> "none", payload |-> ClaimPayload(0, None), calls |-> <<>> ]

\* OrchestratorAdapter.__init__: no session; nothing handled
AdapterOff ==
    /\ sessions = <<>>
    /\ nextSess = 1
    /\ outbox = <<>>
    /\ ad_last = NoRequest
    /\ ad_count = 0

\* --------------------------------------------------------- registry calls
\* MultiModelRegistry (src/infrastructure/model_registry.py) called by
\* threads.  A call takes the registry lock, runs its body in two steps and
\* releases the lock when it returns or raises.
RegThreads == {"t1", "t2"}
RegModels == { ModelName(1), ModelName(2) }
Capacities == 1..2

RegOp(op, m, c, st) == [ op |-> op, model_id |-> m, connector |-> c, status |-> st ]
NoRegOp == RegOp("none", None, None, None)

Reads == {"get_model", "list_models", "export_records"}

RegOps ==
    { RegOp("register_model", m, c, None) : m \in RegModels, c \in {None, "k1"} }
    \cup { RegOp("unregister_model", m, None, None) : m \in RegModels }
    \cup { RegOp("attach_connector", m, "k1", None) : m \in RegModels }
    \cup { RegOp("update_status", m, None, "running") : m \in RegModels }
    \cup { RegOp("get_model", m, None, None) : m \in RegModels }
    \cup { RegOp("list_models", None, None, None), RegOp("export_records", None, None, None) }

\* mutant: a thread enters `with self._lock` whoever holds the lock
registry_lock_ignored(owner) == TRUE

\* `with self._lock` can be entered
registry_lock_free(owner) == owner = Free

\* mutant: the capacity test lets one record too many in
register_check_one_over(models, m, cap) ==
    IF m \in Range(models) THEN "ValueError"
    ELSE IF Len(models) > cap THEN "RuntimeError"
    ELSE "ok"

\* the two tests of register_model
register_check(models, m, cap) ==
    IF m \in Range(models) THEN "ValueError"
    ELSE IF Len(models) >= cap THEN "RuntimeError"
    ELSE "ok"

\* dict.pop(key, None) on the keys of _records, and on a dict
pop_key(models, m) == SelectSeq(models, LAMBDA x : x # m)
pop(d, m) == [ x \in DOMAIN d \ {m} |-> d[x] ]

\* d[key] = value
dict_set(d, m, v) == [ x \in DOMAIN d \cup {m} |-> IF x = m THEN v ELSE d[x] ]

\* A value a read returned: records by model_id and abliteration_status;
\* `live` tells that the record is the registry's own ModelRecord object
\* and not a copy of it.
Rec(m, st, live) == [ model_id |-> m, abliteration_status |-> st, live |-> live ]

get_model(models, status, m) ==
    IF m \in Range(models) THEN <<Rec(m, status[m], TRUE)>> ELSE <<>>

list_models(models, status) ==
    [ i \in 1..Len(models) |-> Rec(models[i], status[models[i]], TRUE) ]

\* asdict(record) of every record
export_copies(models, status) ==
    [ i \in 1..Len(models) |-> Rec(models[i], status[models[i]], FALSE) ]

\* what the holders of the record object of m read after its
\* abliteration_status was set
seen_after_update(h, m, st) ==
    [ th \in DOMAIN h |->
        [ i \in 1..Len(h[th]) |->
            IF h[th][i].live /\ h[th][i].model_id = m
            THEN [h[th][i] EXCEPT !.abliteration_status = st] ELSE h[th][i] ] ]

\* the record object of m has left _records: who holds it holds the only
\* reference
seen_after_pop(h, m) ==
    [ th \in DOMAIN h |->
        [ i \in 1..Len(h[th]) |->
            IF h[th][i].model_id = m THEN [h[th][i] EXCEPT !.live = FALSE] ELSE h[th][i] ] ]

\* MultiModelRegistry.__init__ with no thread calling
RegistryOff ==
    /\ max_models = 1
    /\ reg_lock = Free
    /\ r_pc = [th \in RegThreads |-> "idle"]
    /\ r_op = [th \in RegThreads |-> NoRegOp]
    /\ r_ret = [th \in RegThreads |-> "none"]
    /\ held = [th \in RegThreads |-> <<>>]
    /\ r_last = [ by |-> None, op |-> "none" ]
    /\ r_calls = 0

\* ------------------------------------------------------ connector calls
\* ModelConnector._rate_limit and the operations of a connector, called by
\* threads.  time.time() is far from 0.0, the first _last_call_at: the clock
\* starts at 0 and the first _last_call_at is one interval before it.
ConnThreads == {"u1", "u2"}
RateConns == {"k1", "k2"}
ConnOps == {"get_refusals", "apply_abliteration"}

\* the operations whose first statement is self._rate_limit()
rate_limited(op) == op \in {"generate", "get_refusals", "test"}

\* sleep_for = interval - (now - self._last_call_at)
sleep_for(interval, t, last_at) == interval - (t - last_at)

NoConnOp == [ op |-> "none", on |-> None ]

NoProceed == [ op |-> "none", on |-> None, at |-> 0, prev |-> NoTime ]

\* connectors constructed, no call made
RateOff ==
    /\ min_interval = [k \in RateConns |-> 0]
    /\ rl_lock = [k \in RateConns |-> Free]
    /\ last_call_at = [k \in RateConns |-> -RateInterval]
    /\ c_pc = [th \in ConnThreads |-> "idle"]
    /\ c_op = [th \in ConnThreads |-> NoConnOp]
    /\ wake = [th \in ConnThreads |-> 0]
    /\ rate_last = NoProceed
    /\ proc_at = [k \in RateConns |-> NoTime]
    /\ rate_calls = 0

\* ------------------------------------------------------------ message bus
\* MessageBus and MessageRouter (src/infrastructure/message_bus.py).  A route
\* or pattern is the sequence of its symbols: single characters, or a word
\* that no pattern of the model splits.
Chars == {"o", ".", "*"}

RECURSIVE Text(_)
Text(n) ==
    IF n = 0 THEN {<<>>}
    ELSE Text(n - 1) \cup { Append(s, c) : s \in Text(n - 1), c \in Chars }

\* str.endswith, str.startswith
endswith(s, c) == Len(s) > 0 /\ s[Len(s)] = c

startswith(s, prefix) == Len(prefix) <= Len(s) /\ SubSeq(s, 1, Len(prefix)) = prefix

\* mutant: the wildcard is an ordinary character
matches_exact(pattern, route) == pattern = route

\* MessageBus._matches
matches(pattern, route) ==
    IF endswith(pattern, "*")
    THEN startswith(route, SubSeq(pattern, 1, Len(pattern) - 1))
    ELSE pattern = route

\* a Subscription object: its two fields and which object it is
Subscription(pattern, handler, obj) ==
    [ pattern |-> pattern, handler |-> handler, obj |-> obj ]

\* the __eq__ @dataclass generates: field by field
dataclass_eq(a, b) == a.pattern = b.pattern /\ a.handler = b.handler

\* `sub in self._subscriptions`
contains(subs, sub) == \E i \in 1..Len(subs) : dataclass_eq(subs[i], sub)

\* list.remove: the first element equal to sub goes
list_remove(subs, sub) ==
    LET i == CHOOSE i \in 1..Len(subs) :
                /\ dataclass_eq(subs[i], sub)
                /\ \A j \in 1..(i - 1) : ~dataclass_eq(subs[j], sub)
    IN  SubSeq(subs, 1, i - 1) \o SubSeq(subs, i + 1, Len(subs))

\* subscribe, under the lock
subscribe(subs, sub) == Append(subs, sub)

\* the _unsubscribe function that subscribe returns, closed over sub
unsubscribe(subs, sub) == IF contains(subs, sub) THEN list_remove(subs, sub) ELSE subs

\* publish, under the lock: the subscriptions whose pattern matches
handlers_for(subs, route) == SelectSeq(subs, LAMBDA sub : matches(sub.pattern, route))

\* MessageRouter.on / emit: f"{namespace}.{event_name}"
route_of(namespace, event_name) ==
    IF event_name = <<>> THEN namespace ELSE namespace \o <<".">> \o event_name

Publish_(route, handlers) ==
    [ route |-> route, handlers |-> handlers, pos |-> 0,
      step |-> IF handlers = <<>> THEN "done" ELSE "calling" ]

NoPublish == [Publish_(<<>>, <<>>) EXCEPT !.step = "idle"]

BusCall(op, arg) == [ op |-> op, arg |-> arg ]

NoBusCall == BusCall("none", 0)

\* MessageBus.__init__ and an adapter that was not started
BusOff ==
    /\ subscriptions = <<>>
    /\ closures = <<>>
    /\ unsubscribed = {}
    /\ pub = NoPublish
    /\ bus_last = NoBusCall
    /\ unsubscribers = <<>>

\* the adapter on the bus: MessageRouter(message_bus, "orchestrator"), and
\* the three routes start() subscribes, each with its handler
Namespace == <<"orchestrator">>

Inbound == <<"task_claim_request", "task_heartbeat_request", "task_release_request">>

HandlerOf(event_name) ==
    CASE event_name = "task_claim_request" -> "_handle_claim_request"
      [] event_name = "task_heartbeat_request" -> "_handle_heartbeat_request"
      [] event_name = "task_release_request" -> "_handle_release_request"

\* the state of bus and adapter that start() and stop() work on
Wiring(subs, made, unsubs) == [ subs |-> subs, made |-> made, unsubs |-> unsubs ]

\* self.router.on(event_name, handler), its unsubscribe function kept
router_on(B, event_name) ==
    LET sub == Subscription(route_of(Namespace, <<event_name>>), HandlerOf(event_name),
                            Len(B.made) + 1)
    IN  Wiring(subscribe(B.subs, sub), Append(B.made, sub), Append(B.unsubs, sub.obj))

\* mutant: start() subscribes whether or not it did before
adapter_start_again(B) ==
    router_on(router_on(router_on([B EXCEPT !.unsubs = <<>>], Inbound[1]), Inbound[2]),
              Inbound[3])

\* OrchestratorAdapter.start
adapter_start(B) ==
    IF B.unsubs # <<>> THEN B
    ELSE router_on(router_on(router_on(B, Inbound[1]), Inbound[2]), Inbound[3])

\* OrchestratorAdapter.stop
RECURSIVE adapter_stop(_)
adapter_stop(B) ==
    IF B.unsubs = <<>> THEN B
    ELSE adapter_stop([B EXCEPT !.subs = unsubscribe(@, B.made[Head(B.unsubs)]),
                                !.unsubs = Tail(@)])

\* a handler called with a message; a handler that is not the adapter's
\* leaves the adapter and the orchestrator alone
run_handler(handler, message, A, t) ==
    CASE handler = "_handle_claim_request" -> handle_claim_request(message.payload, A, t)
      [] handler = "_handle_heartbeat_request" ->
            handle_heartbeat_request(message.payload, A, t)
      [] handler = "_handle_release_request" -> handle_release_request(message.payload, A, t)
      [] OTHER -> A

\* publish on the publisher's thread: the handlers collected, one after
\* another; what a handler emits goes to the bus in turn, where the adapter
\* has no subscription
RECURSIVE dispatch(_, _, _, _)
dispatch(handlers, message, A, t) ==
    IF handlers = <<>> THEN A
    ELSE dispatch(Tail(handlers), message, run_handler(Head(handlers).handler, message, A, t), t)

\* --------------------------------------------------------------- the locks
\* Every lock of the program is a threading.RLock: the orchestrator's, the
\* registry's, the bus's, the adapter's, and one per connector object (named
\* by the model it is attached to). A thread's program is the sequence of
\* lock operations and blocking calls that its code makes, in order; what the
\* code computes between them is left out.
UnitNames == <<"m1", "m2", "m3">>
PoolNames == <<"w1", "w2", "w3">>

LockNames == {"orchestrator", "registry", "bus", "adapter"} \cup Range(UnitNames)
LockThreads == {"main", "daemon", "client"} \cup Range(PoolNames)

Unlocked == [ by |-> "none", n |-> 0 ]

acquire(l) == <<"acquire", l>>
release(l) == <<"release", l>>

\* `with self._lock:` around a body
with_lock(l, body) == <<acquire(l)>> \o body \o <<release(l)>>

\* mutant: the handlers are called inside `with self._lock`
bus_publish_holding(handlers) == with_lock("bus", handlers)

\* MessageBus.publish: the handlers are collected under the bus lock and
\* called after it is released, on the publisher's thread
bus_publish(handlers) == with_lock("bus", <<>>) \o handlers

\* _log_event: the line is appended and event_hook(event) is called, by a
\* thread that is inside the orchestrator's lock. The hook is the caller's:
\* none, or one that publishes the event on the bus (where no handler of the
\* adapter is subscribed to it).
log_event_locks(hook) == IF hook = "publishes" THEN bus_publish(<<>>) ELSE <<>>

\* create_task, claim_task, heartbeat, complete_task, fail_task and
\* recover_stale_tasks: load, change, save and log under the lock
orchestrator_call(hook) == with_lock("orchestrator", log_event_locks(hook))

\* a connector operation: _rate_limit sleeps under the connector's lock,
\* then the operation's own statements return or raise
connector_call(m) == with_lock(m, <<>>) \o << <<"call", m>> >>

\* one stage of run_for_model: create_task, claim_task, the connector
\* operations, complete_task
stage_locks(hook, operations) ==
    orchestrator_call(hook) \o orchestrator_call(hook) \o operations
        \o orchestrator_call(hook)

\* run_for_model: baseline_test, abliteration (apply_abliteration has no
\* _rate_limit), validation_test, comparison
run_for_model_locks(m, hook) ==
    stage_locks(hook, connector_call(m) \o connector_call(m))
        \o stage_locks(hook, << <<"call", m>> >>)
        \o stage_locks(hook, connector_call(m) \o connector_call(m))
        \o stage_locks(hook, <<>>)

\* a pool thread: takes a work item, runs it and sets the future, for ever
worker_locks(m, hook) ==
    run_for_model_locks(m, hook) \o << <<"set_result", m>>, <<"take", "pool">> >>

\* run_batch: list_models; per model get_connector, update_status, submit;
\* per future of as_completed update_status; the executor's __exit__;
\* export_records
RECURSIVE submit_locks(_)
submit_locks(models) ==
    IF models = <<>> THEN <<>>
    ELSE with_lock("registry", <<>>) \o with_lock("registry", <<>>)
             \o << <<"submit", Head(models)>> >> \o submit_locks(Tail(models))

RECURSIVE collect_locks(_)
collect_locks(models) ==
    IF models = <<>> THEN <<>>
    ELSE << <<"as_completed", "pool">> >> \o with_lock("registry", <<>>)
             \o collect_locks(Tail(models))

run_batch_locks(models) ==
    with_lock("registry", <<>>) \o submit_locks(models) \o collect_locks(models)
        \o << <<"shutdown", "pool">> >> \o with_lock("registry", <<>>)
        \o << <<"return", "main">> >>

\* StaleRecoveryDaemon._run_loop: a pass, then the wait on the stop event
run_loop_locks(hook) ==
    orchestrator_call(hook) \o << <<"wait", "daemon">>, <<"loop", "daemon">> >>

\* the adapter's handlers: the orchestrator calls, the session written or
\* dropped under the adapter's lock, the answer emitted
handler_locks(handler, hook) ==
    CASE handler = "_handle_claim_request" ->
            orchestrator_call(hook) \o orchestrator_call(hook)
                \o with_lock("adapter", <<>>) \o bus_publish(<<>>)
      [] handler = "_handle_heartbeat_request" ->
            orchestrator_call(hook) \o bus_publish(<<>>)
      [] handler = "_handle_release_request" ->
            orchestrator_call(hook) \o with_lock("adapter", <<>>) \o bus_publish(<<>>)

\* a bus client publishing requests, one after another
client_locks(handler, hook) ==
    bus_publish(handler_locks(handler, hook)) \o << <<"loop", "client">> >>

\* the locks, the threads' programs and the executor
Machine(lk, prog, queue, fut) ==
    [ locks |-> lk, program |-> prog, work_queue |-> queue, futures |-> fut ]

Finished == {"done", "raised"}

\* the instruction can be carried out now
CanRun(S, t) ==
    LET ins == Head(S.program[t])
    IN  CASE ins[1] = "acquire" -> S.locks[ins[2]].by \in {"none", t}
          [] ins[1] = "take" -> S.work_queue # <<>>
          [] ins[1] = "as_completed" -> \E m \in DOMAIN S.futures : S.futures[m] \in Finished
          [] ins[1] = "shutdown" ->
                \A m \in DOMAIN S.futures : S.futures[m] \notin {"queued", "running"}
          [] OTHER -> TRUE

\* the calls at which a thread may have to wait
Blocking(ins) == ins[1] \in {"acquire", "take", "as_completed", "shutdown", "wait"}

\* one instruction of thread t; `raises` decides a connector operation,
\* `handler` the next request of the client
exec(S, t, hook, raises, handler) ==
    LET ins == Head(S.program[t])
        next == [S EXCEPT !.program[t] = Tail(@)]
    IN  CASE ins[1] = "acquire" ->
                [next EXCEPT !.locks[ins[2]] = [ by |-> t, n |-> @.n + 1 ]]
          [] ins[1] = "release" ->
                [next EXCEPT !.locks[ins[2]] =
                    IF @.n = 1 THEN Unlocked ELSE [ by |-> t, n |-> @.n - 1 ]]
          [] ins[1] = "call" ->
                IF raises
                THEN [S EXCEPT !.program[t] = << <<"take", "pool">> >>,
                               !.futures[ins[2]] = "raised"]
                ELSE next
          [] ins[1] = "set_result" -> [next EXCEPT !.futures[ins[2]] = "done"]
          [] ins[1] = "take" ->
                [S EXCEPT !.program[t] = worker_locks(Head(S.work_queue), hook),
                          !.work_queue = Tail(@),
                          !.futures[Head(S.work_queue)] = "running"]
          [] ins[1] = "submit" ->
                [next EXCEPT !.work_queue = Append(@, ins[2]),
                             !.futures[ins[2]] = "queued"]
          [] ins[1] = "as_completed" ->
                LET m == CHOOSE m \in DOMAIN S.futures : S.futures[m] \in Finished
                IN  [next EXCEPT !.futures[m] = IF @ = "done" THEN "completed" ELSE "failed"]
          [] ins[1] = "loop" ->
                [S EXCEPT !.program[t] =
                    IF ins[2] = "daemon" THEN run_loop_locks(hook)
                    ELSE client_locks(handler, hook)]
          [] OTHER -> next

\* a thread runs from one blocking call to the next
RECURSIVE run_on(_, _, _, _, _)
run_on(S, t, hook, raises, handler) ==
    IF S.program[t] = <<>> \/ Blocking(Head(S.program[t])) THEN S
    ELSE CHOOSE R \in { run_on(X, t, hook, raises, handler) :
                            X \in {exec(S, t, hook, raises, handler)} } : TRUE

run(S, t, hook, raises, handler) ==
    CHOOSE R \in { run_on(X, t, hook, raises, handler) :
                       X \in {exec(S, t, hook, raises, handler)} } : TRUE

NoSetup == [ hook |-> "none", units |-> 0, workers |-> 0 ]

LocksOff ==
    /\ locks = [l \in LockNames |-> Unlocked]
    /\ program = [t \in LockThreads |-> <<>>]
    /\ work_queue = <<>>
    /\ futures = [m \in Range(UnitNames) |-> "none"]
    /\ setup = NoSetup

SideOff == AdapterOff /\ RegistryOff /\ RateOff /\ BusOff /\ LocksOff

HookOff == event_hook = "none"

\* the threads the daemon creates, and the threads that call start / stop
Pollers == 1..MaxSpawns
Controllers == {"c1", "c2"}

NoCtl == [ op |-> "none", by |-> None, result |-> "none", joined |-> FALSE, alive |-> FALSE ]

\* StaleRecoveryDaemon.__init__: no thread, stop event clear
DaemonOff ==
    /\ d_thread = 0
    /\ stop_event = FALSE
    /\ poller = [p \in Pollers |-> "unborn"]
    /\ wake_at = [p \in Pollers |-> 0]
    /\ ctl_pc = [c \in Controllers |-> "idle"]
    /\ ctl_join = [c \in Controllers |-> 0]
    /\ ctl_last = NoCtl
    /\ ctl_calls = 0

SubsystemsOff == DaemonOff /\ WfOff /\ BatchOff /\ SideOff

ExtInit == HookOff /\ SubsystemsOff

\* a fresh workspace: empty store and log, every thread idle on one instance
OrchInit ==
    /\ tasks = <<>>
    /\ events = <<>>
    /\ now = 0
    /\ nextId = 1
    /\ last = NoCall
    /\ committed = [t \in TaskIds |-> 0]
    /\ handle = [th \in Threads |-> "h1"]
    /\ holder = [h \in Handles |-> Free]
    /\ pc = [th \in Threads |-> "idle"]
    /\ req = [th \in Threads |-> NoReq]
    /\ snap = [th \in Threads |-> <<>>]
    /\ ret = [th \in Threads |-> NoRet]
    /\ serial = <<>>
    /\ conc = [th \in Threads |-> {}]
    /\ calls = 0

Init == OrchInit /\ ExtInit

\* the effect of one whole handler run under the orchestrator's lock
Commit(op, tid, agent, r) ==
    /\ Len(events) < MaxEvents
    /\ LET h == event_hook_mirror(r, events, event_hook)
       IN  /\ tasks' = IF h.saved THEN h.mem ELSE tasks
           /\ events' = h.log
           /\ last' = Call(op, tid, agent, h, now)
           /\ committed' = [t \in TaskIds |->
                               IF h.saved /\ t \in h.recovered THEN committed[t] + 1
                               ELSE committed[t]]
    /\ UNCHANGED <<now, threadVars, extVars>>

CreateTask(creator) ==
    /\ nextId <= MaxTasks
    /\ Commit("create", nextId, creator, create_task(tasks, events, nextId, creator))
    /\ nextId' = nextId + 1

ClaimTask(tid, agent) ==
    /\ Commit("claim", tid, agent, claim_task(tasks, events, tid, agent, now))
    /\ UNCHANGED nextId

Heartbeat(tid, agent) ==
    /\ Commit("heartbeat", tid, agent, heartbeat(tasks, events, tid, agent, now))
    /\ UNCHANGED nextId

CompleteTask(tid, agent) ==
    /\ Commit("complete", tid, agent, complete_task(tasks, events, tid, agent, now))
    /\ UNCHANGED nextId

FailTask(tid, agent, reason) ==
    /\ Commit("fail", tid, agent, fail_task(tasks, events, tid, agent, reason, now))
    /\ UNCHANGED nextId

GetTask(tid) ==
    /\ Commit("get", tid, None, get_task(tasks, events, tid))
    /\ UNCHANGED nextId

RecoverStaleTasks ==
    /\ Commit("recover", 0, "orchestrator", recover_stale_tasks(tasks, events, now))
    /\ UNCHANGED nextId

Tick ==
    /\ now < MaxTime
    /\ now' = now + 1
    /\ last' = [NoCall EXCEPT !.op = "tick", !.at = now + 1]
    /\ UNCHANGED <<tasks, events, nextId, committed, threadVars, extVars>>

Next ==
    \/ \E c \in Creators : CreateTask(c)
    \/ \E tid \in TaskIds, a \in Agents : ClaimTask(tid, a)
    \/ \E tid \in TaskIds, a \in Agents : Heartbeat(tid, a)
    \/ \E tid \in TaskIds, a \in Agents : CompleteTask(tid, a)
    \/ \E tid \in TaskIds, a \in Agents, reason \in Reasons : FailTask(tid, a, reason)
    \/ \E tid \in TaskIds : GetTask(tid)
    \/ RecoverStaleTasks
    \/ Tick

Spec == Init /\ [][Next]_vars

\* the same calls on an instance constructed with an event hook
InitHook == OrchInit /\ event_hook \in {"ok", "raises"} /\ SubsystemsOff

SpecHook == InitHook /\ [][Next]_vars

\* ------------------------------------------------- threads and instances
\* The same handlers, run by threads: a call waits at `with self._lock` of
\* its instance, loads the store, and then mutates, saves and logs.

\* each worker thread is one agent; the daemon thread only polls
AgentOf(th) == IF th = "w1" THEN "a1" ELSE "a2"

Requests(th) ==
    IF th = "daemon"
    THEN { [NoReq EXCEPT !.op = "recover", !.agent = "orchestrator"] }
    ELSE { [NoReq EXCEPT !.op = "create", !.agent = c] : c \in Creators }
         \cup { [NoReq EXCEPT !.op = o, !.task_id = tid, !.agent = AgentOf(th)] :
                   o \in {"claim", "heartbeat", "complete"}, tid \in TaskIds }
         \cup { [ op |-> "fail", task_id |-> tid, agent |-> AgentOf(th), reason |-> r ] :
                   tid \in TaskIds, r \in Reasons }

InFlight == { th \in Threads : pc[th] # "idle" }

Creating == { th \in Threads : pc[th] # "idle" /\ req[th].op = "create" }

\* the handler a request names, on store mem, log and fresh id
Run(rq, mem, log, id, t) ==
    CASE rq.op = "create" -> create_task(mem, log, id, rq.agent)
      [] rq.op = "claim" -> claim_task(mem, log, rq.task_id, rq.agent, t)
      [] rq.op = "heartbeat" -> heartbeat(mem, log, rq.task_id, rq.agent, t)
      [] rq.op = "complete" -> complete_task(mem, log, rq.task_id, rq.agent, t)
      [] rq.op = "fail" -> fail_task(mem, log, rq.task_id, rq.agent, rq.reason, t)
      [] rq.op = "recover" -> recover_stale_tasks(mem, log, t)

\* a thread calls a public method and reaches its `with self._lock`
Invoke(th, rq) ==
    /\ pc[th] = "idle"
    /\ calls < MaxCalls
    /\ calls' = calls + 1
    /\ Len(events) + Cardinality(InFlight) < MaxEvents
    /\ rq.op = "create" => nextId + Cardinality(Creating) <= MaxTasks
    /\ rq.op \in {"claim", "heartbeat", "complete", "fail"} => rq.task_id < nextId
    /\ pc' = [pc EXCEPT ![th] = "waiting"]
    /\ req' = [req EXCEPT ![th] = rq]
    /\ ret' = [ret EXCEPT ![th] = NoRet]
    /\ conc' = [u \in Threads |->
                   IF u = th THEN InFlight
                   ELSE IF u \in InFlight THEN conc[u] \cup {th} ELSE conc[u]]
    /\ UNCHANGED <<tasks, events, now, nextId, last, committed, handle, holder, snap, serial>>
    /\ UNCHANGED extVars

\* mutant: the with block does not wait for the lock
lock_never_waits(th) == TRUE

\* threading.RLock of the instance: free, or already held by this thread
lock_acquirable(th) == holder[handle[th]] \in {Free, th}

\* the lock is acquired and _load_tasks reads the store
Enter(th) ==
    /\ pc[th] = "waiting"
    /\ lock_acquirable(th)
    /\ holder' = [holder EXCEPT ![handle[th]] = th]
    /\ snap' = [snap EXCEPT ![th] = tasks]
    /\ pc' = [pc EXCEPT ![th] = "loaded"]
    /\ UNCHANGED <<tasks, events, now, nextId, last, committed, handle, req, ret, serial, conc, calls>>
    /\ UNCHANGED extVars

\* the handler body runs on the loaded store, saves, logs, and the with
\* block is left
Finish(th) ==
    /\ pc[th] = "loaded"
    /\ LET r == event_hook_mirror(Run(req[th], snap[th], events, nextId, now),
                                  events, event_hook)
           sr == Run(req[th], serial, events, nextId, now)
       IN  /\ tasks' = IF r.saved THEN r.mem ELSE tasks
           /\ events' = r.log
           /\ serial' = IF sr.saved THEN sr.mem ELSE serial
           /\ ret' = [ret EXCEPT ![th] =
                         [ op |-> req[th].op, task_id |-> req[th].task_id,
                           agent |-> req[th].agent, result |-> r.result,
                           serial |-> sr.result, recovered |-> r.recovered,
                           at |-> now ]]
    /\ nextId' = IF req[th].op = "create" THEN nextId + 1 ELSE nextId
    /\ holder' = [holder EXCEPT ![handle[th]] = Free]
    /\ pc' = [pc EXCEPT ![th] = "idle"]
    /\ snap' = [snap EXCEPT ![th] = <<>>]
    /\ UNCHANGED <<now, last, committed, handle, req, conc, calls, extVars>>

NextThreads ==
    \/ \E th \in Threads : \E rq \in Requests(th) : Invoke(th, rq)
    \/ \E th \in Threads : Enter(th)
    \/ \E th \in Threads : Finish(th)
    \/ Tick

\* every thread calls one AgentOrchestrator instance
SpecThreads == Init /\ [][NextThreads]_vars

\* two instances opened on the same workspace: w2 calls the second one
InitHandles ==
    /\ tasks = <<>>
    /\ events = <<>>
    /\ now = 0
    /\ nextId = 1
    /\ last = NoCall
    /\ committed = [t \in TaskIds |-> 0]
    /\ handle = [th \in Threads |-> IF th = "w2" THEN "h2" ELSE "h1"]
    /\ holder = [h \in Handles |-> Free]
    /\ pc = [th \in Threads |-> "idle"]
    /\ req = [th \in Threads |-> NoReq]
    /\ snap = [th \in Threads |-> <<>>]
    /\ ret = [th \in Threads |-> NoRet]
    /\ serial = <<>>
    /\ conc = [th \in Threads |-> {}]
    /\ calls = 0
    /\ ExtInit

SpecHandles == InitHandles /\ [][NextThreads]_vars

\* ------------------------------------------------------- recovery daemon
\* StaleRecoveryDaemon: start() and stop() called by controller threads, and
\* the polling threads running _run_loop.

Alive(p) == poller[p] \in {"loop", "waiting"}

\* is_running: bool(self._thread and self._thread.is_alive())
is_running == d_thread # 0 /\ Alive(d_thread)

Spawned == { p \in Pollers : poller[p] # "unborn" }

CtlRet(op, c, result, joined, alive) ==
    [ op |-> op, by |-> c, result |-> result, joined |-> joined, alive |-> alive ]

\* start(), first statement: the is_running test; a running daemon makes the
\* call return at once
StartCall(c) ==
    /\ ctl_pc[c] = "idle"
    /\ ctl_calls < MaxControl
    /\ ctl_calls' = ctl_calls + 1
    /\ IF is_running
       THEN /\ ctl_last' = CtlRet("start", c, None, FALSE, FALSE)
            /\ UNCHANGED ctl_pc
       ELSE /\ Cardinality(Spawned) + Cardinality({k \in Controllers : ctl_pc[k] = "start"})
                  < MaxSpawns
            /\ ctl_pc' = [ctl_pc EXCEPT ![c] = "start"]
            /\ UNCHANGED ctl_last
    /\ UNCHANGED <<tasks, events, now, nextId, last, committed, threadVars, event_hook, wf, batchVars, sideVars>>
    /\ UNCHANGED <<d_thread, stop_event, poller, wake_at, ctl_join>>

\* start(), the rest: clear the stop event, create the thread, start it
StartSpawn(c) ==
    /\ ctl_pc[c] = "start"
    /\ LET p == Cardinality(Spawned) + 1
       IN  /\ stop_event' = FALSE
           /\ d_thread' = p
           /\ poller' = [poller EXCEPT ![p] = "loop"]
    /\ ctl_pc' = [ctl_pc EXCEPT ![c] = "idle"]
    /\ ctl_last' = CtlRet("start", c, None, FALSE, FALSE)
    /\ UNCHANGED <<tasks, events, now, nextId, last, committed, threadVars, event_hook, wf, batchVars, sideVars>>
    /\ UNCHANGED <<wake_at, ctl_join, ctl_calls>>

\* stop(timeout) up to the join: without a thread it returns; otherwise it
\* sets the stop event, which ends every wait on it, and joins self._thread
StopCall(c) ==
    /\ ctl_pc[c] = "idle"
    /\ ctl_calls < MaxControl
    /\ ctl_calls' = ctl_calls + 1
    /\ IF d_thread = 0
       THEN /\ ctl_last' = CtlRet("stop", c, None, FALSE, FALSE)
            /\ UNCHANGED <<stop_event, poller, ctl_pc, ctl_join>>
       ELSE /\ stop_event' = TRUE
            /\ poller' = [p \in Pollers |-> IF poller[p] = "waiting" THEN "loop" ELSE poller[p]]
            /\ ctl_join' = [ctl_join EXCEPT ![c] = d_thread]
            /\ ctl_pc' = [ctl_pc EXCEPT ![c] = "join"]
            /\ UNCHANGED ctl_last
    /\ UNCHANGED <<tasks, events, now, nextId, last, committed, threadVars, event_hook, wf, batchVars, sideVars>>
    /\ UNCHANGED <<d_thread, wake_at>>

\* stop(timeout) from the return of join, which comes when the joined thread
\* has ended or, the thread still alive, when the timeout has passed; then
\* `if not self._thread.is_alive(): self._thread = None`, and None is returned
StopJoin(c) ==
    /\ ctl_pc[c] = "join"
    /\ ctl_pc' = [ctl_pc EXCEPT ![c] = "idle"]
    /\ IF d_thread = 0
       THEN /\ ctl_last' = CtlRet("stop", c, "AttributeError", TRUE, Alive(ctl_join[c]))
            /\ UNCHANGED d_thread
       ELSE /\ d_thread' = IF Alive(d_thread) THEN d_thread ELSE 0
            /\ ctl_last' = CtlRet("stop", c, None, TRUE, Alive(ctl_join[c]))
    /\ UNCHANGED <<tasks, events, now, nextId, last, committed, threadVars, event_hook, wf, batchVars, sideVars>>
    /\ UNCHANGED <<stop_event, poller, wake_at, ctl_join, ctl_calls>>

\* mutant: the wait lasts one tick longer than the interval
next_wake_late(t) == t + PollInterval + 1

\* the time at which self._stop_event.wait(self.interval_seconds) times out
next_wake(t) == t + PollInterval

\* _run_loop, one pass with the stop event clear: recover_stale_tasks(), then
\* into the wait
PollerRecover(p) ==
    /\ poller[p] = "loop"
    /\ ~stop_event
    /\ LET r == event_hook_mirror(recover_stale_tasks(tasks, events, now),
                                  events, event_hook)
       IN  /\ tasks' = r.mem
           /\ events' = r.log
           /\ committed' = [t \in TaskIds |->
                               IF t \in r.recovered THEN committed[t] + 1
                               ELSE committed[t]]
    /\ poller' = [poller EXCEPT ![p] = "waiting"]
    /\ wake_at' = [wake_at EXCEPT ![p] = next_wake(now)]
    /\ UNCHANGED <<now, nextId, last, threadVars, event_hook, wf, batchVars, sideVars>>
    /\ UNCHANGED <<d_thread, stop_event, ctl_pc, ctl_join, ctl_last, ctl_calls>>

\* _run_loop: the while test finds the stop event set and the thread ends
PollerExit(p) ==
    /\ poller[p] = "loop"
    /\ stop_event
    /\ poller' = [poller EXCEPT ![p] = "dead"]
    /\ UNCHANGED <<tasks, events, now, nextId, last, committed, threadVars, event_hook, wf, batchVars, sideVars>>
    /\ UNCHANGED <<d_thread, stop_event, wake_at, ctl_pc, ctl_join, ctl_last, ctl_calls>>

\* the wait times out
PollerWake(p) ==
    /\ poller[p] = "waiting"
    /\ now >= wake_at[p]
    /\ poller' = [poller EXCEPT ![p] = "loop"]
    /\ UNCHANGED <<tasks, events, now, nextId, last, committed, threadVars, event_hook, wf, batchVars, sideVars>>
    /\ UNCHANGED <<d_thread, stop_event, wake_at, ctl_pc, ctl_join, ctl_last, ctl_calls>>

\* a polling thread that can run does so before the clock's next tick
PollersSettled ==
    \A p \in Pollers :
        /\ poller[p] # "loop"
        /\ poller[p] = "waiting" => now < wake_at[p]

DaemonTick ==
    /\ PollersSettled
    /\ now < MaxHorizon
    /\ now' = now + 1
    /\ last' = [NoCall EXCEPT !.op = "tick", !.at = now + 1]
    /\ UNCHANGED <<tasks, events, nextId, committed, threadVars, extVars>>

\* the store after create_task and claim_task(.., "a1") at time 0
HeldStore ==
    LET c == create_task(<<>>, <<>>, 1, "henry")
    IN  claim_task(c.mem, c.log, 1, "a1", 0)

\* an instance whose daemon has not been started, on a fresh workspace or on
\* one that holds a claimed task
InitDaemon ==
    /\ \E r \in {Outcome(<<>>, TRUE, <<>>, "none", {}), HeldStore} :
          /\ tasks = r.mem
          /\ events = r.log
          /\ nextId = Len(r.log) \div 2 + 1
    /\ now = 0
    /\ last = NoCall
    /\ committed = [t \in TaskIds |-> 0]
    /\ handle = [th \in Threads |-> "h1"]
    /\ holder = [h \in Handles |-> Free]
    /\ pc = [th \in Threads |-> "idle"]
    /\ req = [th \in Threads |-> NoReq]
    /\ snap = [th \in Threads |-> <<>>]
    /\ ret = [th \in Threads |-> NoRet]
    /\ serial = <<>>
    /\ conc = [th \in Threads |-> {}]
    /\ calls = 0
    /\ ExtInit

NextDaemon ==
    \/ \E c \in Controllers : StartCall(c)
    \/ \E c \in Controllers : StartSpawn(c)
    \/ \E c \in Controllers : StopCall(c)
    \/ \E c \in Controllers : StopJoin(c)
    \/ \E p \in Pollers : PollerRecover(p)
    \/ \E p \in Pollers : PollerExit(p)
    \/ \E p \in Pollers : PollerWake(p)
    \/ DaemonTick

SpecDaemon == InitDaemon /\ [][NextDaemon]_vars

\* a call of agent "a1" on the instance whose daemon is polling; a lock is
\* taken or refreshed only while the clock's range lets it age out
ClientCall(rq) ==
    /\ calls < MaxCalls
    /\ calls' = calls + 1
    /\ rq.op = "create" => nextId <= MaxTasks
    /\ rq.op # "create" => rq.task_id < nextId
    /\ rq.op \in {"claim", "heartbeat"} => now + StaleAfter + PollInterval <= MaxHorizon
    /\ LET r == event_hook_mirror(Run(rq, tasks, events, nextId, now), events, event_hook)
       IN  /\ tasks' = IF r.saved THEN r.mem ELSE tasks
           /\ events' = r.log
           /\ committed' = [t \in TaskIds |->
                               IF r.saved /\ t \in r.recovered THEN committed[t] + 1
                               ELSE committed[t]]
    /\ nextId' = IF rq.op = "create" THEN nextId + 1 ELSE nextId
    /\ UNCHANGED <<now, last, handle, holder, pc, req, snap, ret, serial, conc, extVars>>

\* the instance right after start_recovery_daemon(): one polling thread,
\* about to make its first pass
InitPolling ==
    /\ OrchInit
    /\ HookOff
    /\ d_thread = 1
    /\ stop_event = FALSE
    /\ poller = [p \in Pollers |-> IF p = 1 THEN "loop" ELSE "unborn"]
    /\ wake_at = [p \in Pollers |-> 0]
    /\ ctl_pc = [c \in Controllers |-> "idle"]
    /\ ctl_join = [c \in Controllers |-> 0]
    /\ ctl_last = CtlRet("start", "c1", None, FALSE, FALSE)
    /\ ctl_calls = 1
    /\ WfOff
    /\ BatchOff
    /\ SideOff

NextPolling ==
    \/ \E rq \in Requests("w1") : ClientCall(rq)
    \/ \E p \in Pollers : PollerRecover(p)
    \/ \E p \in Pollers : PollerWake(p)
    \/ DaemonTick

\* the polling thread is scheduled and the clock advances
SpecPolling ==
    /\ InitPolling
    /\ [][NextPolling]_vars
    /\ WF_vars(DaemonTick)
    /\ \A p \in Pollers : WF_vars(PollerRecover(p)) /\ WF_vars(PollerWake(p))

\* ---------------------------------------------------------- one workflow
\* run_for_model called on an instance, statement by statement, while the
\* clock advances and the recovery daemon makes its passes.

WfStep ==
    /\ wf.step \notin {"off", "returned", "raised"}
    /\ LET S == wf_advance([ wf |-> wf, mem |-> tasks, log |-> events, id |-> nextId ], now)
       IN  /\ wf' = S.wf
           /\ tasks' = S.mem
           /\ events' = S.log
           /\ nextId' = S.id
    /\ UNCHANGED <<now, last, committed, threadVars, event_hook, daemonVars, batchVars, sideVars>>

\* a pass of the recovery daemon that finds a stale lock
WfRecover ==
    /\ \E tid \in DOMAIN tasks : IsStale(tasks[tid], now)
    /\ LET r == event_hook_mirror(recover_stale_tasks(tasks, events, now),
                                  events, event_hook)
       IN  /\ tasks' = r.mem
           /\ events' = r.log
           /\ committed' = [t \in TaskIds |->
                               IF t \in r.recovered THEN committed[t] + 1
                               ELSE committed[t]]
    /\ UNCHANGED <<now, nextId, last, threadVars, extVars>>

InitWorkflow ==
    /\ OrchInit
    /\ HookOff
    /\ DaemonOff
    /\ BatchOff
    /\ SideOff
    /\ \E k \in ConnKinds, f \in FailStages : wf = Frame("m1", Connector(k, f))

NextWorkflow ==
    \/ WfStep
    \/ WfRecover
    \/ Tick

SpecWorkflow == InitWorkflow /\ [][NextWorkflow]_vars

\* -------------------------------------------------------------- adapter
\* Requests published on the adapter's three routes, with the clock running
\* and the stale-recovery pass of the orchestrator.

\* a published request reaches its handler, which runs to its emit
Handle(route, pl, A) ==
    /\ ad_count < MaxRequests
    /\ tasks' = A.mem
    /\ events' = A.log
    /\ nextId' = A.id
    /\ sessions' = A.sessions
    /\ nextSess' = A.n
    /\ outbox' = A.out
    /\ ad_last' = [ route |-> route, payload |-> pl, calls |-> A.calls ]
    /\ ad_count' = ad_count + 1
    /\ UNCHANGED <<now, last, committed, threadVars, event_hook, daemonVars, wf, batchVars,
                   registryVars, rateVars, busVars, lockVars>>

Here == AdState(tasks, events, nextId, sessions, nextSess)

ClaimRequest(tid, agent) ==
    /\ tid \in DOMAIN tasks \/ nextId <= MaxTasks
    /\ nextSess <= MaxSessions
    /\ Handle("task_claim_request", ClaimPayload(tid, agent),
              handle_claim_request(ClaimPayload(tid, agent), Here, now))

HeartbeatRequest(sid, tok) ==
    Handle("task_heartbeat_request", SessionPayload(sid, tok, None),
           handle_heartbeat_request(SessionPayload(sid, tok, None), Here, now))

ReleaseRequest(sid, tok, outcome) ==
    Handle("task_release_request", SessionPayload(sid, tok, outcome),
           handle_release_request(SessionPayload(sid, tok, outcome), Here, now))

\* a pass of recover_stale_tasks that finds a stale lock
AdapterRecover ==
    /\ \E tid \in DOMAIN tasks : IsStale(tasks[tid], now)
    /\ LET r == recover_stale_tasks(tasks, events, now)
       IN  /\ tasks' = r.mem
           /\ events' = r.log
    /\ UNCHANGED <<now, nextId, last, committed, threadVars, extVars>>

\* the clock, up to the first reading at which a lock taken at 0 is stale
AdapterTick ==
    /\ now <= StaleAfter
    /\ now' = now + 1
    /\ UNCHANGED <<tasks, events, nextId, last, committed, threadVars, extVars>>

SessionIds == { SessionId(n) : n \in 1..MaxSessions } \cup {None}
LockTokens == { LockToken(n) : n \in 1..MaxSessions } \cup {None}

InitAdapter == OrchInit /\ ExtInit

NextAdapter ==
    \/ \E tid \in {0} \cup DOMAIN tasks \cup {UnknownId}, a \in Agents \cup {None} :
          ClaimRequest(tid, a)
    \/ \E sid \in SessionIds, tok \in LockTokens : HeartbeatRequest(sid, tok)
    \/ \E sid \in SessionIds, tok \in LockTokens, o \in {"completed", "failed"} :
          ReleaseRequest(sid, tok, o)
    \/ AdapterRecover
    \/ AdapterTick

SpecAdapter == InitAdapter /\ [][NextAdapter]_vars

\* ------------------------------------------------------------- registry
\* Threads calling a registry constructed with max_models.

InitRegistry ==
    /\ OrchInit
    /\ HookOff
    /\ DaemonOff
    /\ WfOff
    /\ AdapterOff
    /\ BatchOff
    /\ RateOff
    /\ BusOff
    /\ LocksOff
    /\ max_models \in Capacities
    /\ reg_lock = Free
    /\ r_pc = [th \in RegThreads |-> "idle"]
    /\ r_op = [th \in RegThreads |-> NoRegOp]
    /\ r_ret = [th \in RegThreads |-> "none"]
    /\ held = [th \in RegThreads |-> <<>>]
    /\ r_last = [ by |-> None, op |-> "none" ]
    /\ r_calls = 0

RegFrame ==
    UNCHANGED <<tasks, events, now, nextId, last, committed, threadVars, event_hook,
                daemonVars, wf, adapterVars, conn_heap, max_workers, unit, batch, report,
                report_file, max_models, rateVars, busVars,
                lockVars>>

\* the call returns or raises: the lock is released
Return(th, result) ==
    /\ reg_lock' = Free
    /\ r_pc' = [r_pc EXCEPT ![th] = "idle"]
    /\ r_ret' = [r_ret EXCEPT ![th] = result]

\* a thread calls the registry and enters `with self._lock`
RegEnter(th, op) ==
    /\ r_pc[th] = "idle"
    /\ r_calls < MaxRegCalls
    /\ registry_lock_free(reg_lock)
    /\ reg_lock' = th
    /\ r_pc' = [r_pc EXCEPT ![th] = "body1"]
    /\ r_op' = [r_op EXCEPT ![th] = op]
    /\ r_calls' = r_calls + 1
    /\ r_last' = [ by |-> th, op |-> op.op ]
    /\ UNCHANGED <<reg_models, reg_status, reg_conn, r_ret, held>>
    /\ RegFrame

\* the first half of the body: the tests, and the change of _records
RegBody1(th) ==
    /\ r_pc[th] = "body1"
    /\ r_last' = [ by |-> th, op |-> r_op[th].op ]
    /\ LET op == r_op[th]
           m == op.model_id
           known == m \in Range(reg_models)
           go == /\ r_pc' = [r_pc EXCEPT ![th] = "body2"]
                 /\ UNCHANGED <<reg_lock, r_ret>>
       IN  CASE op.op = "register_model" ->
                  LET chk == register_check(reg_models, m, max_models)
                  IN  IF chk # "ok"
                      THEN /\ Return(th, chk)
                           /\ UNCHANGED <<reg_models, reg_status, held>>
                      ELSE /\ reg_models' = Append(reg_models, m)
                           /\ reg_status' = dict_set(reg_status, m, "pending")
                           /\ go
                           /\ UNCHANGED held
             [] op.op = "unregister_model" ->
                  /\ reg_models' = pop_key(reg_models, m)
                  /\ reg_status' = pop(reg_status, m)
                  /\ held' = seen_after_pop(held, m)
                  /\ go
             [] op.op \in {"attach_connector", "update_status"} ->
                  IF ~known
                  THEN /\ Return(th, "KeyError")
                       /\ UNCHANGED <<reg_models, reg_status, held>>
                  ELSE /\ go
                       /\ UNCHANGED <<reg_models, reg_status, held>>
             [] op.op \in Reads ->
                  /\ held' = [held EXCEPT ![th] =
                                 CASE op.op = "get_model" -> get_model(reg_models, reg_status, m)
                                   [] op.op = "list_models" -> list_models(reg_models, reg_status)
                                   [] op.op = "export_records" ->
                                        export_copies(reg_models, reg_status)]
                  /\ Return(th, "value")
                  /\ UNCHANGED <<reg_models, reg_status>>
    /\ UNCHANGED <<reg_conn, r_op, r_calls>>
    /\ RegFrame

\* the second half of the body: the change of _connectors or of the record
RegBody2(th) ==
    /\ r_pc[th] = "body2"
    /\ r_last' = [ by |-> th, op |-> r_op[th].op ]
    /\ LET op == r_op[th]
           m == op.model_id
       IN  CASE op.op = "register_model" ->
                  /\ reg_conn' = IF op.connector # None THEN dict_set(reg_conn, m, op.connector)
                                 ELSE reg_conn
                  /\ UNCHANGED <<reg_status, held>>
             [] op.op = "unregister_model" ->
                  /\ reg_conn' = pop(reg_conn, m)
                  /\ UNCHANGED <<reg_status, held>>
             [] op.op = "attach_connector" ->
                  /\ reg_conn' = dict_set(reg_conn, m, op.connector)
                  /\ UNCHANGED <<reg_status, held>>
             [] op.op = "update_status" ->
                  /\ reg_status' = IF m \in DOMAIN reg_status
                                   THEN update_status(reg_status, m, op.status)
                                   ELSE reg_status
                  /\ held' = seen_after_update(held, m, op.status)
                  /\ UNCHANGED reg_conn
    /\ Return(th, "ok")
    /\ UNCHANGED <<reg_models, r_op, r_calls>>
    /\ RegFrame

\* the caller writes abliteration_status of the first record it holds
HolderWrites(th) ==
    /\ r_pc[th] = "idle"
    /\ held[th] # <<>>
    /\ held[th][1].abliteration_status # "edited"
    /\ r_last' = [ by |-> th, op |-> "write" ]
    /\ LET rec == held[th][1]
       IN  IF rec.live
           THEN /\ reg_status' = update_status(reg_status, rec.model_id, "edited")
                /\ held' = seen_after_update(held, rec.model_id, "edited")
           ELSE /\ held' = [held EXCEPT ![th][1].abliteration_status = "edited"]
                /\ UNCHANGED reg_status
    /\ UNCHANGED <<reg_models, reg_conn, reg_lock, r_pc, r_op, r_ret, r_calls>>
    /\ RegFrame

NextRegistry ==
    \/ \E th \in RegThreads, op \in RegOps : RegEnter(th, op)
    \/ \E th \in RegThreads : RegBody1(th)
    \/ \E th \in RegThreads : RegBody2(th)
    \/ \E th \in RegThreads : HolderWrites(th)

SpecRegistry == InitRegistry /\ [][NextRegistry]_vars

\* ----------------------------------------------------------- rate limit
\* Threads calling the operations of two connector objects while the clock
\* runs.

InitRate ==
    /\ OrchInit
    /\ HookOff
    /\ DaemonOff
    /\ WfOff
    /\ BatchOff
    /\ AdapterOff
    /\ RegistryOff
    /\ BusOff
    /\ LocksOff
    /\ min_interval \in [RateConns -> {0, RateInterval}]
    /\ rl_lock = [k \in RateConns |-> Free]
    /\ last_call_at = [k \in RateConns |-> -RateInterval]
    /\ c_pc = [th \in ConnThreads |-> "idle"]
    /\ c_op = [th \in ConnThreads |-> NoConnOp]
    /\ wake = [th \in ConnThreads |-> 0]
    /\ rate_last = NoProceed
    /\ proc_at = [k \in RateConns |-> NoTime]
    /\ rate_calls = 0

RateFrame ==
    UNCHANGED <<tasks, events, nextId, last, committed, threadVars, event_hook, daemonVars,
                wf, reg_models, reg_status, reg_conn, max_workers, unit, batch, report,
                report_file, adapterVars, registryVars, min_interval, busVars,
                lockVars>>

\* the operation's own statements run, after _rate_limit if it has one
Proceed(th, k, op) ==
    /\ rate_last' = [ op |-> op, on |-> k, at |-> now, prev |-> proc_at[k] ]
    /\ proc_at' = [proc_at EXCEPT ![k] = <<now>>]
    /\ c_pc' = [c_pc EXCEPT ![th] = "idle"]
    /\ conn_heap' = IF op = "apply_abliteration"
                    THEN [conn_heap EXCEPT ![k] = apply_abliteration(@)]
                    ELSE conn_heap

\* a thread calls an operation: one that is not rate limited, or whose
\* connector has no interval, proceeds; another goes to `with self._lock`
ConnCall(th, k, op) ==
    /\ c_pc[th] = "idle"
    /\ rate_calls < MaxRateCalls
    /\ rate_calls' = rate_calls + 1
    /\ c_op' = [c_op EXCEPT ![th] = [ op |-> op, on |-> k ]]
    /\ IF rate_limited(op) /\ min_interval[k] > 0
       THEN /\ c_pc' = [c_pc EXCEPT ![th] = "at_lock"]
            /\ UNCHANGED <<rate_last, proc_at, conn_heap>>
       ELSE Proceed(th, k, op)
    /\ UNCHANGED <<now, rl_lock, last_call_at, wake>>
    /\ RateFrame

\* inside the lock: read the clock, and sleep if the interval is not over
RateEnter(th) ==
    /\ c_pc[th] = "at_lock"
    /\ rl_lock[c_op[th].on] = Free
    /\ LET k == c_op[th].on
           s == sleep_for(min_interval[k], now, last_call_at[k])
       IN  /\ rl_lock' = [rl_lock EXCEPT ![k] = th]
           /\ IF s > 0
              THEN /\ c_pc' = [c_pc EXCEPT ![th] = "sleeping"]
                   /\ wake' = [wake EXCEPT ![th] = now + s]
              ELSE /\ c_pc' = [c_pc EXCEPT ![th] = "stamp"]
                   /\ UNCHANGED wake
    /\ UNCHANGED <<now, last_call_at, c_op, rate_last, proc_at, rate_calls, conn_heap>>
    /\ RateFrame

\* time.sleep(sleep_for) returns
RateWake(th) ==
    /\ c_pc[th] = "sleeping"
    /\ now >= wake[th]
    /\ c_pc' = [c_pc EXCEPT ![th] = "stamp"]
    /\ UNCHANGED <<now, rl_lock, last_call_at, c_op, wake, rate_last, proc_at, rate_calls,
                   conn_heap>>
    /\ RateFrame

\* self._last_call_at = time.time(); the lock is released and the operation
\* proceeds
RateStamp(th) ==
    /\ c_pc[th] = "stamp"
    /\ LET k == c_op[th].on
       IN  /\ last_call_at' = [last_call_at EXCEPT ![k] = now]
           /\ rl_lock' = [rl_lock EXCEPT ![k] = Free]
           /\ Proceed(th, k, c_op[th].op)
    /\ UNCHANGED <<now, c_op, wake, rate_calls>>
    /\ RateFrame

\* the clock, up to two intervals
RateTick ==
    /\ now < RateInterval + RateInterval
    /\ now' = now + 1
    /\ UNCHANGED <<rl_lock, last_call_at, c_pc, c_op, wake, rate_last, proc_at, rate_calls,
                   conn_heap>>
    /\ RateFrame

NextRate ==
    \/ \E th \in ConnThreads, k \in RateConns, op \in ConnOps : ConnCall(th, k, op)
    \/ \E th \in ConnThreads : RateEnter(th)
    \/ \E th \in ConnThreads : RateWake(th)
    \/ \E th \in ConnThreads : RateStamp(th)
    \/ RateTick

SpecRate == InitRate /\ [][NextRate]_vars

\* ------------------------------------------------------------------ bus
\* One thread subscribing and unsubscribing handlers while another
\* publishes: publish collects the handlers under the lock and calls them
\* after releasing it, so the other thread's calls come in between.
Patterns == { <<"o", ".", "*">>, <<"o", ".", "o">>, <<"*">> }
Routes == { <<"o", ".", "o">>, <<"o", ".">>, <<"o", "o">> }
BusHandlers == {"h1", "h2"}

InitBus == OrchInit /\ ExtInit

BusFrame ==
    UNCHANGED <<tasks, events, now, nextId, last, committed, threadVars, event_hook,
                daemonVars, wf, batchVars, adapterVars, registryVars, rateVars,
                unsubscribers, lockVars>>

Subscribe(pattern, handler) ==
    /\ Len(closures) < MaxSubs
    /\ LET sub == Subscription(pattern, handler, Len(closures) + 1)
       IN  /\ subscriptions' = subscribe(subscriptions, sub)
           /\ closures' = Append(closures, sub)
           /\ bus_last' = BusCall("subscribe", sub.obj)
    /\ UNCHANGED <<unsubscribed, pub>>
    /\ BusFrame

\* a call of the k-th unsubscribe function
Unsubscribe(k) ==
    /\ subscriptions' = unsubscribe(subscriptions, closures[k])
    /\ unsubscribed' = unsubscribed \cup {k}
    /\ bus_last' = BusCall("unsubscribe", k)
    /\ UNCHANGED <<closures, pub>>
    /\ BusFrame

\* publish, the part under the lock
Publish(route) ==
    /\ pub.step \in {"idle", "done"}
    /\ pub' = Publish_(route, handlers_for(subscriptions, route))
    /\ bus_last' = BusCall("publish", 0)
    /\ UNCHANGED <<subscriptions, closures, unsubscribed>>
    /\ BusFrame

\* publish, one turn of `for _pattern, handler in handlers: handler(message)`
Deliver ==
    /\ pub.step = "calling"
    /\ pub' = [pub EXCEPT !.pos = @ + 1,
                          !.step = IF pub.pos + 1 = Len(pub.handlers) THEN "done" ELSE @]
    /\ bus_last' = BusCall("handler", pub.handlers[pub.pos + 1].obj)
    /\ UNCHANGED <<subscriptions, closures, unsubscribed>>
    /\ BusFrame

NextBus ==
    \/ \E p \in Patterns, h \in BusHandlers : Subscribe(p, h)
    \/ \E k \in 1..Len(closures) : Unsubscribe(k)
    \/ \E r \in Routes : Publish(r)
    \/ Deliver

SpecBus == InitBus /\ [][NextBus]_vars

\* ----------------------------------------------------------------- wire
\* The adapter started and stopped on a bus that other subscribers use, and
\* requests published on its three routes.
InitWire == OrchInit /\ ExtInit

WireFrame ==
    UNCHANGED <<tasks, events, now, nextId, last, committed, threadVars, event_hook,
                daemonVars, wf, batchVars, adapterVars, registryVars, rateVars,
                unsubscribed, pub, lockVars>>

Wired(B, call) ==
    /\ subscriptions' = B.subs
    /\ closures' = B.made
    /\ unsubscribers' = B.unsubs
    /\ bus_last' = BusCall(call, Len(B.made) - Len(closures))
    /\ WireFrame

AdapterStart ==
    /\ Len(closures) + Len(Inbound) <= MaxWired
    /\ Wired(adapter_start(Wiring(subscriptions, closures, unsubscribers)), "start")

AdapterStop ==
    Wired(adapter_stop(Wiring(subscriptions, closures, unsubscribers)), "stop")

\* another component subscribes to every route of the namespace
MonitorSubscribe ==
    /\ Len(closures) < MaxWired
    /\ \A i \in 1..Len(closures) : closures[i].handler # "monitor"
    /\ LET sub == Subscription(route_of(Namespace, <<"*">>), "monitor", Len(closures) + 1)
       IN  Wired(Wiring(subscribe(subscriptions, sub), Append(closures, sub), unsubscribers),
                 "subscribe")

\* publish(route, payload) of a request
Request(event_name, payload) ==
    LET route == route_of(Namespace, <<event_name>>)
    IN  Handle(event_name, payload,
               dispatch(handlers_for(subscriptions, route),
                        [ route |-> route, payload |-> payload ], Here, now))

NextWire ==
    \/ AdapterStart
    \/ AdapterStop
    \/ MonitorSubscribe
    \/ \E tid \in {0} \cup DOMAIN tasks \cup {UnknownId}, a \in Agents \cup {None} :
          /\ tid \in DOMAIN tasks \/ nextId <= MaxTasks
          /\ nextSess <= MaxSessions
          /\ Request("task_claim_request", ClaimPayload(tid, a))
    \/ \E sid \in SessionIds, tok \in LockTokens :
          Request("task_heartbeat_request", SessionPayload(sid, tok, None))
    \/ \E sid \in SessionIds, tok \in LockTokens, o \in {"completed", "failed"} :
          Request("task_release_request", SessionPayload(sid, tok, o))

SpecWire == InitWire /\ [][NextWire]_vars

\* _matches on every pattern and route up to MaxLen: a bus with one
\* subscription, made with any pattern, and publish called with any route
InitMatch ==
    /\ OrchInit
    /\ HookOff
    /\ DaemonOff /\ WfOff /\ BatchOff
    /\ AdapterOff /\ RegistryOff /\ RateOff /\ LocksOff
    /\ \E pattern \in Text(MaxLen) :
          /\ closures = <<Subscription(pattern, "h1", 1)>>
          /\ subscriptions = subscribe(<<>>, closures[1])
    /\ unsubscribed = {}
    /\ pub = NoPublish
    /\ bus_last = BusCall("subscribe", 1)
    /\ unsubscribers = <<>>

NextMatch ==
    \/ \E r \in Text(MaxLen) : Publish(r)
    \/ Deliver

SpecMatch == InitMatch /\ [][NextMatch]_vars

\* ------------------------------------------------------------ the locks
\* run_batch over n models on a pool of k threads, on the orchestrator whose
\* recovery daemon is running and whose adapter serves a bus client. Each
\* step takes one thread from a blocking call to its next.
Hooks == {"none", "publishes"}
Handlers == { HandlerOf(Inbound[i]) : i \in 1..Len(Inbound) }

Here_ == Machine(locks, program, work_queue, futures)

PoolThreads == { PoolNames[i] : i \in 1..setup.workers }

InitLocks ==
    /\ OrchInit
    /\ HookOff
    /\ DaemonOff /\ WfOff /\ BatchOff
    /\ AdapterOff /\ RegistryOff /\ RateOff /\ BusOff
    /\ \E hook \in Hooks, n \in 1..MaxUnits, k \in 1..MaxPool, handler \in Handlers :
          /\ setup = [ hook |-> hook, units |-> n, workers |-> k ]
          /\ program =
                [t \in LockThreads |->
                    CASE t = "main" -> run_batch_locks(SubSeq(UnitNames, 1, n))
                      [] t = "daemon" -> run_loop_locks(hook)
                      [] t = "client" -> client_locks(handler, hook)
                      [] t \in { PoolNames[i] : i \in 1..k } -> << <<"take", "pool">> >>
                      [] OTHER -> <<>>]
    /\ locks = [l \in LockNames |-> Unlocked]
    /\ work_queue = <<>>
    /\ futures = [m \in Range(UnitNames) |-> "none"]

\* what the step's thread leaves open: whether the connector operation it
\* calls raises, and which request the client publishes next
Raises(t) == IF t \in Range(PoolNames) THEN BOOLEAN ELSE {FALSE}
Published(t) == IF t = "client" THEN Handlers ELSE {HandlerOf(Inbound[1])}

LockStep(t) ==
    /\ program[t] # <<>>
    /\ CanRun(Here_, t)
    /\ \E raises \in Raises(t), handler \in Published(t) :
          \E S \in {run(Here_, t, setup.hook, raises, handler)} :
              /\ locks' = S.locks
              /\ program' = S.program
              /\ work_queue' = S.work_queue
              /\ futures' = S.futures
    /\ UNCHANGED <<tasks, events, now, nextId, last, committed, threadVars, event_hook,
                   daemonVars, wf, batchVars, adapterVars, registryVars, rateVars, busVars,
                   setup>>

\* the thread that called run_batch
RunBatchThread == LockStep("main")

\* a thread of the ThreadPoolExecutor
PoolThread(w) == LockStep(w)

\* the recovery daemon's thread
RunLoopThread == LockStep("daemon")

\* a thread publishing requests to the adapter
ClientThread == LockStep("client")

NextLocks ==
    \/ RunBatchThread
    \/ \E w \in Range(PoolNames) : PoolThread(w)
    \/ RunLoopThread
    \/ ClientThread

SpecLocks == InitLocks /\ [][NextLocks]_vars

\* every thread that can take a step is scheduled, and a pool thread waiting
\* for a lock that is released again and again gets it
SpecLocksFair ==
    /\ SpecLocks
    /\ WF_vars(RunBatchThread) /\ WF_vars(RunLoopThread) /\ WF_vars(ClientThread)
    /\ \A w \in Range(PoolNames) : SF_vars(PoolThread(w))

\* ---------------------------------------------------------------- batch
\* BatchAbliterationOrchestrator.run_batch on a registry: the submit loop,
\* the executor's workers running run_for_model, the as_completed loop and
\* the report.

\* the function f without the arguments it maps to None
Attached(f) == [ m \in { x \in DOMAIN f : f[x] # None } |-> f[m] ]

InitBatch ==
    /\ OrchInit
    /\ HookOff
    /\ DaemonOff
    /\ WfOff
    /\ SideOff
    /\ \E n \in 0..MaxModels :
          /\ reg_models = [i \in 1..n |-> ModelName(i)]
          /\ reg_status = [m \in { ModelName(i) : i \in 1..n } |-> "pending"]
          /\ \E f \in [{ ModelName(i) : i \in 1..n } -> ConnObjs \cup {None}] :
                reg_conn = Attached(f)
          /\ conn_heap = FreshConnectors
          /\ unit = [m \in { ModelName(i) : i \in 1..n } |-> NoUnit]
    /\ max_workers \in 1..MaxWorkers
    /\ batch = NoBatch
    /\ report = NoReport
    /\ report_file = NoReport

\* run_batch up to the executor: list_models(), and the return on none
BatchStart ==
    /\ batch.pc = "idle"
    /\ IF reg_models = <<>>
       THEN /\ batch' = [batch EXCEPT !.pc = "returned"]
            /\ report' = [ models |-> <<>>, summary |-> <<>> ]
       ELSE /\ batch' = [batch EXCEPT !.pc = "submit", !.idx = 1, !.models = reg_models]
            /\ UNCHANGED report
    /\ UNCHANGED <<tasks, events, now, nextId, last, committed, threadVars>>
    /\ UNCHANGED <<event_hook, daemonVars, wf, sideVars>>
    /\ UNCHANGED <<reg_models, reg_status, reg_conn, conn_heap, max_workers, unit, report_file>>

\* one pass of `for record in models`: an entry without a connector is
\* skipped, another is set running and submitted
BatchSubmit ==
    /\ batch.pc = "submit"
    /\ LET m == batch.models[batch.idx]
       IN  /\ IF get_connector(reg_conn, m) = None
              THEN UNCHANGED <<reg_status, unit>>
              ELSE /\ reg_status' = update_status(reg_status, m, "running")
                   /\ unit' = [unit EXCEPT ![m].state = "queued"]
           /\ batch' = IF batch.idx = Len(batch.models)
                        THEN [batch EXCEPT !.pc = "collect"]
                        ELSE [batch EXCEPT !.idx = @ + 1]
    /\ UNCHANGED <<tasks, events, now, nextId, last, committed, threadVars>>
    /\ UNCHANGED <<event_hook, daemonVars, wf, sideVars>>
    /\ UNCHANGED <<reg_models, reg_conn, conn_heap, max_workers, report, report_file>>

Running == { m \in DOMAIN unit : unit[m].state = "running" }

\* the position of a model in the submit order
Pos(m) == CHOOSE i \in 1..Len(reg_models) : reg_models[i] = m

\* a worker of the pool takes the oldest queued work item
UnitStart(m) ==
    /\ unit[m].state = "queued"
    /\ Cardinality(Running) < max_workers
    /\ \A o \in DOMAIN unit : unit[o].state = "queued" => Pos(m) <= Pos(o)
    /\ unit' = [unit EXCEPT ![m].state = "running"]
    /\ UNCHANGED <<tasks, events, now, nextId, last, committed, threadVars>>
    /\ UNCHANGED <<event_hook, daemonVars, wf, sideVars>>
    /\ UNCHANGED <<reg_models, reg_status, reg_conn, conn_heap, max_workers, batch, report,
                   report_file>>

\* the worker runs workflow.run_for_model(self, model_id, connector) on the
\* registry's connector object and sets the future's result or exception
UnitRun(m) ==
    /\ unit[m].state = "running"
    /\ LET S == run_for_model(m, conn_heap[reg_conn[m]], tasks, events, nextId, now)
       IN  /\ tasks' = S.mem
           /\ events' = S.log
           /\ nextId' = S.id
           /\ conn_heap' = [conn_heap EXCEPT ![reg_conn[m]] = S.wf.conn]
           /\ unit' = [unit EXCEPT ![m] =
                          [ state |-> "done",
                            out |-> IF S.wf.step = "returned"
                                    THEN [ kind |-> "result", value |-> WorkflowResult(S.wf) ]
                                    ELSE [ kind |-> "raised", value |-> NoOut.value ] ]]
    /\ UNCHANGED <<now, last, committed, threadVars>>
    /\ UNCHANGED <<event_hook, daemonVars, wf, sideVars>>
    /\ UNCHANGED <<reg_models, reg_status, reg_conn, max_workers, batch, report, report_file>>

\* one pass of `for future in as_completed(future_map)`
BatchCollect(m) ==
    /\ batch.pc = "collect"
    /\ unit[m].state = "done"
    /\ LET c == collect(batch.results, reg_status, m, unit[m].out)
       IN  /\ batch' = [batch EXCEPT !.results = c.results,
                                      !.pc = IF c.raised THEN "raised" ELSE @]
           /\ reg_status' = c.status
    /\ unit' = [unit EXCEPT ![m].state = "collected"]
    /\ UNCHANGED <<tasks, events, now, nextId, last, committed, threadVars>>
    /\ UNCHANGED <<event_hook, daemonVars, wf, sideVars>>
    /\ UNCHANGED <<reg_models, reg_conn, conn_heap, max_workers, report, report_file>>

\* after the loop: summary, report, the report file, return
BatchFinish ==
    /\ batch.pc = "collect"
    /\ \A m \in DOMAIN unit : unit[m].state \in {"none", "collected"}
    /\ LET rep == [ summary |-> summary(batch.models, batch.results),
                    models |-> batch.results,
                    registry |-> export_records(reg_models, reg_status) ]
       IN  /\ report' = rep
           /\ report_file' = rep
    /\ batch' = [batch EXCEPT !.pc = "returned"]
    /\ UNCHANGED <<tasks, events, now, nextId, last, committed, threadVars>>
    /\ UNCHANGED <<event_hook, daemonVars, wf, sideVars>>
    /\ UNCHANGED <<reg_models, reg_status, reg_conn, conn_heap, max_workers, unit>>

NextBatch ==
    \/ BatchStart
    \/ BatchSubmit
    \/ \E m \in Models : m \in DOMAIN unit /\ UnitStart(m)
    \/ \E m \in Models : m \in DOMAIN unit /\ UnitRun(m)
    \/ \E m \in Models : m \in DOMAIN unit /\ BatchCollect(m)
    \/ BatchFinish

SpecBatch == InitBatch /\ [][NextBatch]_vars

\* ------------------------------------------------------- claim vocabulary
Terminal == {"completed", "failed"}

Held(task) == task.lock_owner # None

\* heartbeat age within / beyond the stale timeout at clock reading t
Fresh(task, t) == task.heartbeat_at # NoTime /\ Age(task.heartbeat_at, t) <= StaleAfter
Expired(task, t) == task.heartbeat_at # NoTime /\ Age(task.heartbeat_at, t) > StaleAfter

\* the step is the call op(tid, agent)
Called(op, tid, agent) ==
    last'.op = op /\ last'.task_id = tid /\ last'.agent = agent

SameLock(tid) ==
    /\ tasks'[tid].lock_owner = tasks[tid].lock_owner
    /\ tasks'[tid].lock_acquired_at = tasks[tid].lock_acquired_at
    /\ tasks'[tid].heartbeat_at = tasks[tid].heartbeat_at

\* C1: in every persisted store, a task is in_progress iff its lock_owner is
\* set, and a set lock_owner comes with heartbeat_at and lock_acquired_at.
C1_StatusIffOwner ==
    \A tid \in DOMAIN tasks :
        /\ (tasks[tid].status = "in_progress") <=> Held(tasks[tid])
        /\ Held(tasks[tid]) =>
              tasks[tid].heartbeat_at # NoTime /\ tasks[tid].lock_acquired_at # NoTime

\* a store holding a locked task next to a pending one, right after a
\* heartbeat on the stale lock was rejected and its in-memory recovery dropped
C1_Witness ==
    /\ last.op = "heartbeat" /\ last.result = "false" /\ last.recovered # {}
    /\ tasks[last.task_id].status = "in_progress"
    /\ \E t2 \in DOMAIN tasks : tasks[t2].status = "pending"

\* C2: claim_task(T, B) on a task held by another agent A whose heartbeat age
\* is within the stale timeout returns false and leaves owner and timestamps.
C2_MutualExclusion ==
    [][\A tid \in DOMAIN tasks, b \in Agents :
          ( /\ Called("claim", tid, b)
            /\ Held(tasks[tid]) /\ tasks[tid].lock_owner # b
            /\ Fresh(tasks[tid], now) )
          => (last'.result = "false" /\ SameLock(tid))]_vars

\* a rejected claim on a lock whose heartbeat age is exactly the timeout
C2_Witness ==
    /\ last.op = "claim" /\ last.result = "false"
    /\ last.task_id \in DOMAIN tasks
    /\ Held(tasks[last.task_id]) /\ tasks[last.task_id].lock_owner # last.agent
    /\ Age(tasks[last.task_id].heartbeat_at, now) = StaleAfter

\* C3: once completed or failed, a task rejects every claim and no call
\* changes its status or sets one of its lock fields.
C3_TerminalAbsorbing ==
    [][\A tid \in DOMAIN tasks :
          tasks[tid].status \in Terminal
          => /\ tasks'[tid].status = tasks[tid].status
             /\ SameLock(tid)
             /\ \A b \in Agents : Called("claim", tid, b) => last'.result = "false"]_vars

\* a claim on a terminal task has been rejected
C3_Witness ==
    /\ last.op = "claim" /\ last.result = "false"
    /\ last.task_id \in DOMAIN tasks
    /\ tasks[last.task_id].status \in Terminal
    /\ ~Held(tasks[last.task_id])

\* C4: complete_task / fail_task by an agent that is not the current lock
\* owner (also on a task with no owner) returns false, status unchanged.
C4_NonOwnerRelease ==
    [][\A tid \in DOMAIN tasks, x \in Agents :
          ( /\ Called("complete", tid, x) \/ Called("fail", tid, x)
            /\ tasks[tid].lock_owner # x )
          => (last'.result = "false" /\ tasks'[tid].status = tasks[tid].status)]_vars

\* a release by a non-owner was rejected on a task whose lock had gone stale
C4_Witness ==
    /\ last.op \in {"complete", "fail"} /\ last.result = "false"
    /\ last.recovered # {}
    /\ tasks[last.task_id].status = "in_progress"
    /\ tasks[last.task_id].lock_owner # last.agent

\* C7: claim_task(T, B) on a task whose heartbeat age exceeds the stale
\* timeout returns true and leaves T in_progress, owned by B, with fresh
\* lock_acquired_at and heartbeat_at.
C7_StaleReclaim ==
    [][\A tid \in DOMAIN tasks, b \in Agents :
          ( /\ Called("claim", tid, b)
            /\ Held(tasks[tid]) /\ Expired(tasks[tid], now) )
          => /\ last'.result = "true"
             /\ tasks'[tid].status = "in_progress"
             /\ tasks'[tid].lock_owner = b
             /\ tasks'[tid].lock_acquired_at = iso_now(now)
             /\ tasks'[tid].heartbeat_at = iso_now(now)]_vars

\* a claim took over a lock whose age was the first one past the timeout
C7_Witness ==
    /\ last.op = "claim" /\ last.result = "true" /\ last.recovered # {}
    /\ tasks[last.task_id].lock_owner = last.agent
    /\ \E i \in 1..Len(events) :
          /\ events[i].type = "lock_recovered" /\ events[i].task_id = last.task_id
          /\ events[i].previous_owner # last.agent

\* C10: a heartbeat by the owner within the timeout returns true and refreshes
\* heartbeat_at; while the heartbeat age is within the timeout neither a claim
\* by another agent nor recover_stale_tasks removes the owner.
C10_HeartbeatKeepsLock ==
    [][\A tid \in DOMAIN tasks :
          (Held(tasks[tid]) /\ Fresh(tasks[tid], now))
          => /\ Called("heartbeat", tid, tasks[tid].lock_owner)
                => /\ last'.result = "true"
                   /\ tasks'[tid].heartbeat_at = iso_now(now)
                   /\ tasks'[tid].lock_owner = tasks[tid].lock_owner
             /\ ( \/ last'.op = "recover"
                  \/ (last'.op = "claim" /\ last'.agent # tasks[tid].lock_owner) )
                => tasks'[tid].lock_owner = tasks[tid].lock_owner]_vars

\* the owner's heartbeat, sent at age exactly the timeout, carried the lock
\* past the time at which the original acquisition would have gone stale
C10_Witness ==
    /\ last.op = "recover" /\ last.recovered = {}
    /\ \E tid \in DOMAIN tasks :
          /\ Held(tasks[tid])
          /\ Age(tasks[tid].lock_acquired_at, now) > StaleAfter
          /\ Age(tasks[tid].heartbeat_at, now) = StaleAfter

\* C11: recover_stale_tasks resets exactly the tasks whose heartbeat age
\* exceeds the stale timeout (pending, lock fields cleared, one lock_recovered
\* event naming the previous owner each), returns exactly their ids, leaves
\* every other task as it was, and a second call at the same time returns
\* the empty list, changes no task and logs nothing.
C11_RecoverExactlyStale ==
    [][last'.op = "recover" =>
          LET stale == { tid \in DOMAIN tasks : Expired(tasks[tid], now) }
              added == SubSeq(events', Len(events) + 1, Len(events'))
              again == recover_stale_tasks(tasks', events', now')
          IN  /\ last'.recovered = stale
              /\ DOMAIN tasks' = DOMAIN tasks
              /\ \A tid \in DOMAIN tasks :
                     tasks'[tid] = IF tid \in stale
                                   THEN [ tasks[tid] EXCEPT !.status = "pending",
                                                            !.lock_owner = None,
                                                            !.lock_acquired_at = NoTime,
                                                            !.heartbeat_at = NoTime ]
                                   ELSE tasks[tid]
              /\ SubSeq(events', 1, Len(events)) = events
              /\ Len(added) = Cardinality(stale)
              /\ \A tid \in stale :
                     \E i \in 1..Len(added) :
                        /\ added[i].type = "lock_recovered"
                        /\ added[i].task_id = tid
                        /\ added[i].previous_owner = tasks[tid].lock_owner
              /\ again.recovered = {} /\ again.mem = tasks' /\ again.log = events'
    ]_vars

\* a recovery pass reset one stale lock and left a fresh one held
C11_Witness ==
    /\ last.op = "recover" /\ last.recovered # {}
    /\ \A tid \in last.recovered : tasks[tid].status = "pending" /\ ~Held(tasks[tid])
    /\ \E tid \in DOMAIN tasks : Held(tasks[tid]) /\ Fresh(tasks[tid], now)

\* C12: claim_task(T, A) while A holds a live lock on T returns true and
\* leaves status, lock_owner and lock_acquired_at as the first claim set them.
C12_ReclaimIdempotent ==
    [][\A tid \in DOMAIN tasks, a \in Agents :
          ( /\ Called("claim", tid, a)
            /\ tasks[tid].lock_owner = a /\ Fresh(tasks[tid], now) )
          => /\ last'.result = "true"
             /\ tasks'[tid].status = tasks[tid].status
             /\ tasks'[tid].lock_owner = tasks[tid].lock_owner
             /\ tasks'[tid].lock_acquired_at = tasks[tid].lock_acquired_at]_vars

\* C13: on an id that is not in the store, claim, heartbeat, complete, fail
\* and get_task raise KeyError and leave store and log as they were; on an id
\* in the store the first four return true or false and never raise.
C13_UnknownIdRaises ==
    [][last'.op \in {"claim", "heartbeat", "complete", "fail", "get"} =>
          IF last'.task_id \notin DOMAIN tasks
          THEN last'.result = "KeyError" /\ tasks' = tasks /\ events' = events
          ELSE /\ last'.op # "get" => last'.result \in {"true", "false"}
               /\ last'.op = "get" => last'.result = "task" /\ tasks' = tasks
    ]_vars

\* fail_task on an id that was never created, in a store that holds a task
C13_Witness ==
    /\ last.op = "fail" /\ last.result = "KeyError"
    /\ tasks # <<>> /\ last.task_id \notin DOMAIN tasks

\* the outcome of the call op(tid, agent) on an instance without a hook
Plain(op, tid, agent, reason) ==
    CASE op = "create" -> create_task(tasks, events, tid, agent)
      [] op = "claim" -> claim_task(tasks, events, tid, agent, now)
      [] op = "heartbeat" -> heartbeat(tasks, events, tid, agent, now)
      [] op = "complete" -> complete_task(tasks, events, tid, agent, now)
      [] op = "fail" -> fail_task(tasks, events, tid, agent, reason, now)
      [] op = "get" -> get_task(tasks, events, tid)
      [] op = "recover" -> recover_stale_tasks(tasks, events, now)

\* C14: when the event hook raises, every event the call logs is in the log,
\* directly followed by exactly one event_hook_error record naming its type,
\* and the call returns the result and leaves the store it would with no hook.
C14_HookFailureCaptured ==
    [][(event_hook = "raises" /\ last'.op \notin {"none", "tick"}) =>
          \E reason \in Reasons :
             LET plain == Plain(last'.op, last'.task_id, last'.agent, reason)
                 n == Len(plain.log) - Len(events)
                 added == SubSeq(events', Len(events) + 1, Len(events'))
             IN  /\ last'.result = plain.result
                 /\ tasks' = IF plain.saved THEN plain.mem ELSE tasks
                 /\ SubSeq(events', 1, Len(events)) = events
                 /\ Len(added) = 2 * n
                 /\ \A i \in 1..n :
                        /\ added[2 * i - 1] = plain.log[Len(events) + i]
                        /\ added[2 * i].type = "event_hook_error"
                        /\ added[2 * i].source_event_type = added[2 * i - 1].type
                        /\ added[2 * i].task_id = added[2 * i - 1].task_id
    ]_vars

\* a takeover of a stale lock under a raising hook: lock_recovered and
\* task_claimed are both in the log, each followed by its fallback record
C14_Witness ==
    /\ event_hook = "raises"
    /\ last.op = "claim" /\ last.result = "true" /\ last.recovered # {}
    /\ Len(events) >= 4
    /\ events[Len(events) - 3].type = "lock_recovered"
    /\ events[Len(events) - 2].source_event_type = "lock_recovered"
    /\ events[Len(events) - 1].type = "task_claimed"
    /\ events[Len(events)].source_event_type = "task_claimed"

\* C15: while the daemon is running, a held task whose heartbeat is not
\* refreshed returns to pending with no owner unless a call of its owner
\* refreshes or ends the lock first, and no lock is ever held with a heartbeat
\* older than the stale timeout plus one polling interval.
C15_StaleRecoveryLive ==
    /\ \A tid \in TaskIds, h \in 0..MaxHorizon :
          ( /\ tid \in DOMAIN tasks
            /\ Held(tasks[tid])
            /\ tasks[tid].heartbeat_at = iso_now(h) )
          ~> ( /\ tid \in DOMAIN tasks
               /\ \/ tasks[tid].status = "pending" /\ ~Held(tasks[tid])
                  \/ tasks[tid].status \in Terminal
                  \/ Held(tasks[tid]) /\ tasks[tid].heartbeat_at # iso_now(h) )
    /\ [](\A tid \in DOMAIN tasks :
             Held(tasks[tid])
             => Age(tasks[tid].heartbeat_at, now) <= StaleAfter + PollInterval)

\* after create_task and claim_task, and no further call, the daemon's pass
\* at this clock reading has put the task back to pending
C15_Witness ==
    /\ calls = 2
    /\ Len(events) = 3
    /\ events[2].type = "task_claimed"
    /\ events[3].type = "lock_recovered" /\ events[3].previous_owner = "a1"
    /\ tasks[1].status = "pending" /\ ~Held(tasks[1])
    /\ \E p \in Pollers : poller[p] = "waiting" /\ wake_at[p] = now + PollInterval
    /\ now > StaleAfter

\* C16: start() is a no-op on a running daemon, so at any time at most one
\* polling thread exists, also when start() is called from several threads.
C16_OnePollingThread == Cardinality({ p \in Pollers : Alive(p) }) <= 1

\* C17: stop(timeout) reports 'stopped' exactly when the joined thread is no
\* longer alive after the join and 'not stopped' when the join timed out.
C17_StopReportsOutcome ==
    (ctl_last.op = "stop" /\ ctl_last.joined)
    => ctl_last.result = IF ctl_last.alive THEN "not stopped" ELSE "stopped"

\* C18: the task of stage N+1 is created only after the task of stage N is
\* completed, and when run_for_model returns all four task_ids are completed,
\* whatever the stale timeout, the connector's blocking time and the daemon.
C18_StagesInOrder ==
    /\ \A k \in 2..Len(wf.task_ids) : tasks[wf.task_ids[k - 1]].status = "completed"
    /\ wf.step = "returned"
       => /\ Len(wf.task_ids) = Len(stages)
          /\ \A k \in 1..Len(wf.task_ids) : tasks[wf.task_ids[k]].status = "completed"

\* the entries of the returned report for model m
EntriesOf(m) == SelectSeq(report.models, LAMBDA e : e.model_id = m)

\* C19: the report of run_batch has exactly one entry per registry entry,
\* whatever the completion order and whether or not it has a connector.
C19_OneEntryPerModel ==
    batch.pc = "returned"
    => /\ Len(report.models) = Len(reg_models)
       /\ \A m \in Range(reg_models) : Len(EntriesOf(m)) = 1

\* the metrics of a result entry
Metrics(e) ==
    [ refusal_rates |-> e.refusal_rates,
      benchmark_scores |-> e.benchmark_scores,
      personality_shifts |-> e.personality_shifts ]

\* the entries whose connector no other entry has
Private(m) ==
    /\ m \in DOMAIN reg_conn
    /\ \A o \in DOMAIN reg_conn : reg_conn[o] = reg_conn[m] => o = m

\* the result of the unit of m run alone: its connector as constructed, on
\* an empty store
Alone(m) ==
    WorkflowResult(run_for_model(m, FreshConnectors[reg_conn[m]], <<>>, <<>>, 1, 0).wf)

\* C20: run_batch never lets a unit's exception out; when it has returned,
\* a unit whose workflow raised has exactly one {model_id, error} entry and
\* status failed, every other unit has one result entry and status
\* completed, the entry being the one it gets when run alone if its
\* connector is its own, and no entry has status running.
C20_FailureIsolated ==
    /\ batch.pc # "raised"
    /\ batch.pc = "returned"
       => /\ \A m \in DOMAIN reg_conn :
                   /\ Len(EntriesOf(m)) = 1
                   /\ IF conn_heap[reg_conn[m]].fails_at # 0
                      THEN /\ EntriesOf(m)[1] = ErrorEntry(m)
                           /\ reg_status[m] = "failed"
                      ELSE /\ ~IsError(EntriesOf(m)[1])
                           /\ Private(m) => Metrics(EntriesOf(m)[1]) = Metrics(Alone(m))
                           /\ \A k \in 1..Len(EntriesOf(m)[1].task_ids) :
                                 tasks[EntriesOf(m)[1].task_ids[k]].created_by = WfAgent(m)
                           /\ reg_status[m] = "completed"
          /\ \A m \in Range(reg_models) : reg_status[m] # "running"

\* a returned batch of three units, each with its own connector: the one
\* that raised was collected first, the two others succeeded
C20_Witness ==
    /\ batch.pc = "returned"
    /\ \A m \in Range(reg_models) : Private(m)
    /\ Len(report.models) = 3
    /\ IsError(report.models[1]) /\ report.models[1].model_id = ModelName(2)
    /\ ~IsError(report.models[2]) /\ ~IsError(report.models[3])
    /\ reg_status[ModelName(2)] = "failed"

\* the step handled a request on the route
Handled(route) == ad_count' = ad_count + 1 /\ ad_last'.route = route

\* the tokens of the live sessions
LiveTokens == { sessions[s].lock_token : s \in DOMAIN sessions }

\* C23: a heartbeat or release request whose session_id is not a live
\* session, or whose lock_token is not that session's token, is answered by
\* task_failed alone, makes no orchestrator call and changes no task, no
\* session and no orchestrator event.
C23_InvalidSessionRejected ==
    [][ ( /\ Handled("task_heartbeat_request") \/ Handled("task_release_request")
          /\ \/ ad_last'.payload.session_id \notin DOMAIN sessions
             \/ sessions[ad_last'.payload.session_id].lock_token
                    # ad_last'.payload.lock_token )
        => /\ Len(outbox') = 1
           /\ outbox'[1].event = "task_failed"
           /\ ad_last'.calls = <<>>
           /\ UNCHANGED <<tasks, events, sessions, nextId>> ]_vars

\* a heartbeat request naming a live session with the token of another live
\* session was rejected
C23_Witness ==
    /\ ad_last.route = "task_heartbeat_request"
    /\ ad_last.payload.session_id \in DOMAIN sessions
    /\ sessions[ad_last.payload.session_id].lock_token # ad_last.payload.lock_token
    /\ ad_last.payload.lock_token \in LiveTokens
    /\ Len(outbox) = 1 /\ outbox[1].event = "task_failed"

\* C24: a claim request with an agent_id and no task_id, or with a task_id
\* that is not in the store, creates exactly one task, leaves it in_progress
\* and owned by the agent, and emits task_claimed alone with the new task's
\* id and a session_id and lock_token no session had before.
C24_ClaimCreatesTask ==
    [][ ( /\ Handled("task_claim_request")
          /\ ad_last'.payload.agent_id # None
          /\ ad_last'.payload.task_id \notin DOMAIN tasks )
        => /\ Len(outbox') = 1
           /\ outbox'[1].event = "task_claimed"
           /\ outbox'[1].agent_id = ad_last'.payload.agent_id
           /\ LET new == outbox'[1].task_id
                  sid == outbox'[1].session_id
                  tok == outbox'[1].lock_token
              IN  /\ new \notin DOMAIN tasks
                  /\ DOMAIN tasks' = DOMAIN tasks \cup {new}
                  /\ \A tid \in DOMAIN tasks : tasks'[tid] = tasks[tid]
                  /\ tasks'[new].status = "in_progress"
                  /\ tasks'[new].lock_owner = ad_last'.payload.agent_id
                  /\ tasks'[new].created_by = ad_last'.payload.agent_id
                  /\ sid \notin DOMAIN sessions
                  /\ tok \notin LiveTokens
                  /\ DOMAIN sessions' = DOMAIN sessions \cup {sid}
                  /\ sessions'[sid] = Session(new, ad_last'.payload.agent_id, tok) ]_vars

\* a claim request naming a task_id that is not in the store was answered
\* with a replacement task, next to an older task and an older session
C24_Witness ==
    /\ ad_last.route = "task_claim_request"
    /\ ad_last.payload.task_id = UnknownId
    /\ ad_last.calls = <<"claim_task", "create_task", "claim_task">>
    /\ Len(outbox) = 1 /\ outbox[1].event = "task_claimed"
    /\ Cardinality(DOMAIN tasks) = 2
    /\ Cardinality(DOMAIN sessions) = 2
    /\ tasks[outbox[1].task_id].status = "in_progress"

\* C30: while run_batch is running, no two unit workflows that are running
\* at the same time use the same connector object.
C30_NoSharedConnector ==
    \A m \in Running, o \in Running : reg_conn[m] = reg_conn[o] => m = o

\* thread th leaves the tests of register_model in this step
RegisterTested(th) ==
    /\ r_pc[th] = "body1"
    /\ r_pc'[th] # "body1"
    /\ r_op[th].op = "register_model"

\* C25: the registry never holds more than max_models records nor two
\* records of one id; register_model raises when the id is registered or
\* max_models records are held, and then changes neither records nor
\* connectors.
C25_CapacityAndUniqueness ==
    /\ [](/\ Len(reg_models) <= max_models
          /\ \A i \in 1..Len(reg_models), j \in 1..Len(reg_models) :
                reg_models[i] = reg_models[j] => i = j)
    /\ [][ \A th \in RegThreads :
             RegisterTested(th)
             => /\ r_op[th].model_id \in Range(reg_models) => r_ret'[th] = "ValueError"
                /\ ( /\ r_op[th].model_id \notin Range(reg_models)
                      /\ Len(reg_models) >= max_models ) => r_ret'[th] = "RuntimeError"
                /\ ( \/ r_op[th].model_id \in Range(reg_models)
                      \/ Len(reg_models) >= max_models )
                   => /\ r_pc'[th] = "idle"
                      /\ UNCHANGED <<reg_models, reg_status, reg_conn>> ]_vars

\* one register_model was refused for its id and another for the capacity,
\* on a full registry
C25_Witness ==
    /\ Len(reg_models) = max_models
    /\ \E th \in RegThreads, o \in RegThreads :
          /\ r_op[th].op = "register_model" /\ r_ret[th] = "RuntimeError"
          /\ r_op[o].op = "register_model" /\ r_ret[o] = "ValueError"

\* C26: whenever the registry lock is free, every id with a connector has a
\* record, and an unregister_model that has returned has left neither the
\* record nor the connector of its id.
C26_ConnectorHasRecord ==
    /\ reg_lock = Free => DOMAIN reg_conn \subseteq Range(reg_models)
    /\ \A th \in RegThreads :
          ( r_last = [ by |-> th, op |-> "unregister_model" ] /\ r_pc[th] = "idle" )
          => /\ r_op[th].model_id \notin Range(reg_models)
             /\ r_op[th].model_id \notin DOMAIN reg_conn

\* an unregister_model has returned for an id that another thread had
\* attached a connector to
C26_Witness ==
    \E th \in RegThreads, o \in RegThreads :
        /\ th # o
        /\ r_last = [ by |-> th, op |-> "unregister_model" ] /\ r_pc[th] = "idle"
        /\ r_op[o].op = "attach_connector" /\ r_ret[o] = "ok"
        /\ r_op[o].model_id = r_op[th].model_id
        /\ reg_lock = Free

\* what a held value reads as
Shown(h) ==
    [ i \in 1..Len(h) |->
        [ model_id |-> h[i].model_id, abliteration_status |-> h[i].abliteration_status ] ]

\* C27: a value returned by a read stays as it was returned while other
\* calls change the registry, and a write to the returned value leaves the
\* registry as it was.
C27_ReadsAreSnapshots ==
    [][ /\ \A th \in RegThreads :
             ( r_last'.by # th \/ r_last'.op \notin Reads \cup {"write"} )
             => Shown(held'[th]) = Shown(held[th])
        /\ r_last'.op = "write" => UNCHANGED <<reg_models, reg_status, reg_conn>> ]_vars

\* C28: on a connector with a minimum interval above 0, an operation
\* (generate, get_refusals, test, apply_abliteration) proceeds no sooner
\* than the interval after the operation before it on the same object.
C28_MinimumInterval ==
    ( rate_last.op # "none" /\ min_interval[rate_last.on] > 0 /\ rate_last.prev # NoTime )
    => rate_last.at - rate_last.prev[1] >= min_interval[rate_last.on]

\* apply_abliteration proceeds on connector k in this step
Applies(k) ==
    /\ rate_last' # rate_last
    /\ rate_last'.op = "apply_abliteration"
    /\ rate_last'.on = k

\* C29: no connector operation takes the abliterated flag of a connector
\* back to false, and apply_abliteration on an abliterated connector leaves
\* what get_refusals and test return as it was.
C29_AbliterationOneWay ==
    [][ \A k \in RateConns :
          /\ conn_heap[k].abliterated => conn_heap'[k].abliterated
          /\ Applies(k) => conn_heap'[k].abliterated
          /\ ( conn_heap[k].abliterated /\ Applies(k) )
             => /\ get_refusals(conn_heap'[k]) = get_refusals(conn_heap[k])
                /\ test(conn_heap'[k]) = test(conn_heap[k]) ]_vars

\* both threads have applied the abliteration to one connector, which has
\* since answered get_refusals
C29_Witness ==
    \E k \in RateConns :
        /\ conn_heap[k].abliterated
        /\ rate_last.op = "get_refusals" /\ rate_last.on = k
        /\ \E th \in ConnThreads, o \in ConnThreads :
              /\ th # o
              /\ c_op[o] = [ op |-> "apply_abliteration", on |-> k ]
              /\ c_pc[o] = "idle"
              /\ c_op[th] = [ op |-> "get_refusals", on |-> k ]
              /\ rate_calls = MaxRateCalls

\* the keys of the summary of a batch report
SummaryKeys ==
    { "total_models", "processed_models", "successful_models",
      "avg_refusal_reduction", "avg_benchmark_gain" }

\* the positions of the result entries that carry no error
Successes == { i \in 1..Len(report.models) : ~IsError(report.models[i]) }

\* the sum of the values of the function f
RECURSIVE SumOver(_)
SumOver(f) ==
    IF DOMAIN f = {} THEN 0
    ELSE LET i == CHOOSE j \in DOMAIN f : TRUE
         IN  f[i] + SumOver([j \in DOMAIN f \ {i} |-> f[j]])

\* the fraction q is the mean of the values of f, and 0 when f has none
IsMean(q, f) ==
    IF DOMAIN f = {} THEN q.num = 0
    ELSE q.num * Cardinality(DOMAIN f) = q.den * SumOver(f)

\* C21: the summary of a returned batch counts the registry entries, the
\* result entries and the entries without error, and its two averages are
\* the means of before - after refusal rate and of after - before benchmark
\* score over the entries without error (0 when there is none).
C21_SummaryOverSuccesses ==
    batch.pc = "returned"
    => /\ DOMAIN report.summary = SummaryKeys
       /\ report.summary.total_models = Len(reg_models)
       /\ report.summary.processed_models = Len(report.models)
       /\ report.summary.successful_models = Cardinality(Successes)
       /\ IsMean(report.summary.avg_refusal_reduction,
                 [i \in Successes |-> report.models[i].refusal_rates.before
                                        - report.models[i].refusal_rates.after])
       /\ IsMean(report.summary.avg_benchmark_gain,
                 [i \in Successes |-> report.models[i].benchmark_scores.after
                                        - report.models[i].benchmark_scores.before])

\* C22: every run_batch that returns has returned, and written to the
\* report file, a report with the parts summary (with its five fields),
\* models and registry.
C22_ReportAlwaysPersisted ==
    batch.pc = "returned"
    => /\ DOMAIN report = {"summary", "models", "registry"}
       /\ DOMAIN report.summary = SummaryKeys
       /\ report_file = report

\* ------------------------------------------------------- event-log views
EventsOf(tid) == SelectSeq(events, LAMBDA e : e.task_id = tid)

Count(seq, type) == Len(SelectSeq(seq, LAMBDA e : e.type = type))

\* C8: per task, the lock_recovered events in the log are exactly the stale
\* recoveries that were persisted, and no lock acquisition is followed by two
\* lock_recovered events.
C8_OneRecoveredPerStaleTransition ==
    \A tid \in TaskIds :
        /\ Count(EventsOf(tid), "lock_recovered") = committed[tid]
        /\ LET es == EventsOf(tid)
           IN  \A i, j \in 1..Len(es) :
                  (i < j /\ es[i].type = "lock_recovered" /\ es[j].type = "lock_recovered")
                  => \E k \in (i + 1)..(j - 1) : es[k].type = "task_claimed"

\* the status and owner a task has after the transitions its events record
RECURSIVE Replay(_, _)
Replay(es, st) ==
    IF es = <<>> THEN st
    ELSE LET e == Head(es)
             nxt == CASE e.type = "task_created" -> <<"pending", None>>
                      [] e.type = "task_claimed" -> <<"in_progress", e.actor>>
                      [] e.type = "lock_recovered" -> <<"pending", None>>
                      [] e.type = "task_completed" -> <<"completed", None>>
                      [] e.type = "task_failed" -> <<"failed", None>>
                      [] OTHER -> st
         IN  Replay(Tail(es), nxt)

\* on a takeover, lock_recovered naming the previous owner lies between the
\* two task_claimed events
C9_RecoveredBeforeClaimed ==
    \A tid \in TaskIds :
        LET es == EventsOf(tid)
        IN  \A i, j \in 1..Len(es) :
               ( /\ i < j
                 /\ es[i].type = "task_claimed" /\ es[j].type = "task_claimed"
                 /\ es[i].actor # es[j].actor )
               => \E k \in (i + 1)..(j - 1) :
                     es[k].type = "lock_recovered" /\ es[k].previous_owner = es[i].actor

\* task_created is a task's first event and a terminal event its last
C9_CreatedFirstTerminalLast ==
    \A tid \in TaskIds :
        LET es == EventsOf(tid)
        IN  \A i \in 1..Len(es) :
               /\ (es[i].type = "task_created") <=> (i = 1)
               /\ es[i].type \in {"task_completed", "task_failed"} => i = Len(es)

\* the events of a task, replayed, give its persisted status and owner
C9_LogMatchesStore ==
    \A tid \in DOMAIN tasks :
        Replay(EventsOf(tid), <<"absent", None>>)
            = <<tasks[tid].status, tasks[tid].lock_owner>>

\* C9: events are appended in the order their transitions committed: a
\* takeover shows lock_recovered{previous_owner} before the new task_claimed,
\* and each task's event sequence follows its persisted transitions, with
\* task_created first and a terminal event last.
C9_EventOrder ==
    /\ C9_RecoveredBeforeClaimed
    /\ C9_CreatedFirstTerminalLast
    /\ C9_LogMatchesStore

\* ---------------------------------------------------- concurrency claims
Overlapped(th, u) == th # u /\ u \in conc[th] /\ th \in conc[u]

Abs(n) == IF n < 0 THEN -n ELSE n

\* two overlapping claims of one task by different agents that both returned
\* true, close enough in time that no lock could have gone stale in between
DoubleClaim(th, u) ==
    /\ Overlapped(th, u)
    /\ ret[th].op = "claim" /\ ret[u].op = "claim"
    /\ ret[th].task_id = ret[u].task_id
    /\ ret[th].agent # ret[u].agent
    /\ ret[th].result = "true" /\ ret[u].result = "true"
    /\ Abs(ret[th].at - ret[u].at) <= StaleAfter

\* every task ever created is in the persisted store
NoLostTask == \A id \in 1..(nextId - 1) : id \in DOMAIN tasks

\* C5: on one instance, the calls of concurrent threads and of the recovery
\* daemon act as if run one after another: the store is the serial store,
\* every call returns its serial result, no created task is overwritten and
\* two overlapping claims by different agents never both return true.
C5_Serializable ==
    /\ tasks = serial
    /\ \A th \in Threads : ret[th].result = ret[th].serial
    /\ NoLostTask
    /\ \A th, u \in Threads : ~DoubleClaim(th, u)

\* two threads claimed the same task in overlapping calls; one won, one lost
C5_Witness ==
    /\ Overlapped("w1", "w2")
    /\ ret["w1"].op = "claim" /\ ret["w2"].op = "claim"
    /\ ret["w1"].task_id = ret["w2"].task_id
    /\ {ret["w1"].result, ret["w2"].result} = {"true", "false"}
    /\ ret["w1"].at = ret["w2"].at

\* C6: calls made through different instances on the same store are
\* serialized by one process-wide lock: no update is lost and two overlapping
\* claims of a pending task through two instances never both return true.
C6_HandlesSerialized ==
    /\ \A th, u \in Threads : handle[th] # handle[u] => ~DoubleClaim(th, u)
    /\ NoLostTask
    /\ serial = tasks

\* ---------------------------------------------------------- frame claims
SingleTaskOps == {"claim", "heartbeat", "complete", "fail"}

\* C36: a claim_task, heartbeat, complete_task or fail_task call that
\* returns false leaves the persisted store and the event log as they were,
\* also when the task's lock is stale at the call.
C36_FalseChangesNothing ==
    [][ ( last'.op \in SingleTaskOps /\ last'.result = "false" )
        => UNCHANGED <<tasks, events>> ]_vars

\* C37: create_task adds one pending record under a new id and changes no
\* other; claim_task, heartbeat, complete_task and fail_task on a task leave
\* every other record as it was and drop none.
C37_SingleTaskFrame ==
    [][ /\ last'.op = "create"
           => /\ last'.task_id \notin DOMAIN tasks
              /\ DOMAIN tasks' = DOMAIN tasks \cup {last'.task_id}
              /\ tasks'[last'.task_id] = OrchestratedTask(last'.agent)
              /\ \A tid \in DOMAIN tasks : tasks'[tid] = tasks[tid]
        /\ last'.op \in SingleTaskOps
           => /\ DOMAIN tasks' = DOMAIN tasks
              /\ \A tid \in DOMAIN tasks \ {last'.task_id} : tasks'[tid] = tasks[tid] ]_vars

\* a claim succeeded while another task's lock was stale, and left it
C37_Witness ==
    /\ last.op = "claim" /\ last.result = "true" /\ last.at = now
    /\ \E tid \in DOMAIN tasks \ {last.task_id} :
          Held(tasks[tid]) /\ Expired(tasks[tid], now)

\* C38: when a connector operation raises in stage k, run_for_model raises
\* with the task of stage k in_progress and owned by workflow:<model_id>,
\* the tasks of the stages before k completed and no task made for a later
\* stage; the task of stage k never becomes completed or failed.
C38_RaiseLeavesStageClaimed ==
    /\ [][ ( wf.step # "raised" /\ wf'.step = "raised" )
           => LET k == wf'.stage
                  ids == wf'.task_ids
              IN  /\ Len(ids) = k
                  /\ tasks'[ids[k]].status = "in_progress"
                  /\ tasks'[ids[k]].lock_owner = WfAgent(wf'.model_id)
                  /\ \A j \in 1..(k - 1) : tasks'[ids[j]].status = "completed" ]_vars
    /\ [](wf.step = "raised"
           => /\ Len(wf.task_ids) = wf.stage
              /\ DOMAIN tasks = Range(wf.task_ids)
              /\ tasks[wf.task_ids[wf.stage]].status \notin Terminal)

\* ---------------------------------------------------------- daemon claims
\* C39: whenever the last start() or stop() call to return was start(), and
\* no stop() has been called since, a polling thread is alive with the stop
\* event clear, so that it goes on polling; also for a start() that follows a
\* stop() whose join timed out.
C39_StartedMeansPolling ==
    ( /\ ctl_last.op = "start"
      /\ \A c \in Controllers : ctl_pc[c] = "idle" )
    => /\ is_running
       /\ ~stop_event

\* -------------------------------------------------------- adapter claims
\* the place in the log of the task_claimed event of the n-th session: every
\* session is made right after a claim_task call that returned true
ClaimEvent(n) ==
    CHOOSE i \in 1..Len(events) :
        /\ events[i].type = "task_claimed"
        /\ Cardinality({ j \in 1..i : events[j].type = "task_claimed" }) = n

\* the lock acquisition the n-th session was issued for is over: the session
\* was released through the adapter, or the lock was lost or given up since
Ended(n) ==
    \/ SessionId(n) \notin DOMAIN sessions
    \/ \E i \in (ClaimEvent(n) + 1)..Len(events) :
          /\ events[i].task_id = sessions[SessionId(n)].task_id
          /\ events[i].type \in {"lock_recovered", "task_completed", "task_failed"}

Started == unsubscribers # <<>>

\* the events that answer a request on the route
Answers(route) ==
    CASE route = "task_claim_request" -> {"task_claimed", "task_failed"}
      [] route = "task_heartbeat_request" -> {"task_heartbeat_ack", "task_failed"}
      [] route = "task_release_request" -> {"task_released", "task_failed"}

\* C35: while the adapter is started every request is answered by exactly
\* one message, of the kinds of its route; a session is recorded exactly when
\* task_claimed is emitted; a second start() does not make a request be
\* handled twice.
C35_OneAnswerPerRequest ==
    [][ ( /\ Started
          /\ \E route \in Range(Inbound) : Handled(route) )
        => /\ Len(outbox') = 1
           /\ outbox'[1].event \in Answers(ad_last'.route)
           /\ (DOMAIN sessions' \ DOMAIN sessions # {}) <=> outbox'[1].event = "task_claimed"
           /\ Cardinality(DOMAIN sessions' \ DOMAIN sessions) <= 1
           /\ Len(ad_last'.calls) <= 3 ]_vars

\* start() was called on the started adapter, next to another subscriber,
\* and a release request was then answered with task_released
C35_Witness ==
    /\ Started
    /\ bus_last = BusCall("start", 0)
    /\ Len(subscriptions) = Len(Inbound) + 1
    /\ ad_last.route = "task_release_request"
    /\ Len(outbox) = 1 /\ outbox[1].event = "task_released"

\* ------------------------------------------------------------ bus claims
\* the step is a publish call collecting its handlers
Publishes == bus_last'.op = "publish"

\* the subscription objects a publish collected
Collected(f) == { f.handlers[j].obj : j \in 1..Len(f.handlers) }

\* the pattern is the route, or ends in the wildcard with the route
\* beginning with what stands before it
PatternCovers(pattern, route) ==
    \/ pattern = route
    \/ /\ Len(pattern) > 0
       /\ pattern[Len(pattern)] = "*"
       /\ Len(route) >= Len(pattern) - 1
       /\ \A j \in 1..(Len(pattern) - 1) : route[j] = pattern[j]

\* C31: publish(route) calls the handler of a subscription exactly when the
\* pattern is the route or ends in '*' with the route starting with the text
\* before it; a subscription to o.* gets every route o.<name> and no other.
C31_BusMatching ==
    [][ Publishes =>
          \A i \in 1..Len(subscriptions) :
              LET sub == subscriptions[i]
              IN  /\ sub.obj \in Collected(pub') <=> PatternCovers(sub.pattern, pub'.route)
                  /\ sub.pattern = <<"o", ".", "*">>
                     => ( sub.obj \in Collected(pub')
                          <=> /\ Len(pub'.route) >= 2
                              /\ pub'.route[1] = "o" /\ pub'.route[2] = "." ) ]_vars

\* a finished publish of o.o called the handler subscribed to o.*
C31_Witness ==
    /\ pub.step = "done" /\ pub.route = <<"o", ".", "o">>
    /\ subscriptions[1].pattern = <<"o", ".", "*">>
    /\ pub.pos = 1
    /\ pub.handlers[1].obj = subscriptions[1].obj

\* the subscriptions that should be left: those made, in the order made,
\* less those whose own unsubscribe function was called
Remaining == SelectSeq(closures, LAMBDA sub : sub.obj \notin unsubscribed)

\* what a caller can tell of a list of subscriptions
Visible(subs) == [ i \in 1..Len(subs) |-> <<subs[i].pattern, subs[i].handler>> ]

\* C32: a publish calls the matching handlers in the order their
\* subscriptions were made, whatever subscribe and unsubscribe calls came
\* before: the handlers of the remaining subscriptions, in that order.
C32_DeliveryOrder ==
    [][ Publishes =>
          [ j \in 1..Len(pub'.handlers) |-> pub'.handlers[j].handler ]
            = LET due == SelectSeq(Remaining,
                                   LAMBDA sub : PatternCovers(sub.pattern, pub'.route))
              IN  [ j \in 1..Len(due) |-> due[j].handler ] ]_vars

\* C33: a call of an unsubscribe function removes the subscription its
\* subscribe call made and no other, and removes nothing when called again.
C33_UnsubscribeExact ==
    [][ bus_last'.op = "unsubscribe"
        => subscriptions'
             = SelectSeq(subscriptions, LAMBDA sub : sub.obj # bus_last'.arg) ]_vars

\* ------------------------------------------------------------ lock claims
\* the thread is at a call it cannot carry out now
Waiting(t) == program[t] # <<>> /\ ~CanRun(Here_, t)

\* the threads whose steps can let a waiting thread proceed
WaitsOn(t) ==
    LET ins == Head(program[t])
    IN  CASE ins[1] = "acquire" -> {locks[ins[2]].by}
          [] ins[1] = "take" -> {"main"}
          [] OTHER -> PoolThreads

\* a set of threads every one of which waits, and only for threads of the set
WaitCycle ==
    \E T \in SUBSET LockThreads :
        /\ T # {}
        /\ \A t \in T : Waiting(t) /\ WaitsOn(t) \subseteq T

Returned == setup.units > 0 /\ program["main"] = <<>>

\* C40: no interleaving of the batch workers, the recovery daemon, a bus
\* publisher and the adapter's handlers reaches a state where threads wait
\* on each other for ever, and run_batch returns, for every number of models
\* and of pool threads, connector operations returning or raising.
C40_NoDeadlockAndReturn == [](~WaitCycle) /\ <>Returned

\* run_batch returned, one model completed and one failed, while the daemon
\* is inside a pass with the event hook publishing and the client waits for
\* the orchestrator's lock
C40_Witness ==
    /\ Returned
    /\ setup.hook = "publishes"
    /\ \E m \in DOMAIN futures : futures[m] = "completed"
    /\ \E m \in DOMAIN futures : futures[m] = "failed"
    /\ locks["orchestrator"].by = "daemon"
    /\ Waiting("client")

====
